---- MODULE Spec2Model ----
(***************************************************************************)
(* Verification model of Arbor: the in-memory code graph (arbor-graph),    *)
(* the blast-radius query, and the sync server's watcher / re-indexer /    *)
(* broadcast fan-out (arbor-server).                                       *)
(*                                                                         *)
(* Node handles are petgraph NodeIndex values of a DiGraph (a Vec-backed   *)
(* graph).  The model numbers them 1..Len(nodes); handle h of the model is *)
(* NodeIndex h-1 of the program.                                           *)
(***************************************************************************)
EXTENDS Integers, Sequences, FiniteSets, TLC

VARIABLES
    graph,      \* the ArborGraph: nodes, edges, id_index, name_index, file_index
    last,       \* history: the last graph operation, its argument and the graph before it
    impact,     \* the ImpactAnalysis returned by the last analyze_impact call
    world,      \* the deployment: watched files, events still to come, connections to come
    rx,         \* mpsc queue of promoted WatcherEvents (watcher -> re-indexer)
    ix,         \* the re-indexer task: position, current event, parse result, node_ids
    lock,       \* the RwLock around the shared graph: writer flag and set of readers
    log,        \* every message sent on the broadcast channel so far, with its commit number
    cl,         \* per broadcast connection: position, receiver cursor, messages written
    rd,         \* per Query RPC request in flight: position
    committed,  \* history: the graph as of the last completed re-index
    done,       \* history: the last event the re-indexer finished with
    failed,     \* history: paths whose latest processed event failed to parse
    now,        \* Instant::now() in milliseconds
    notify_rx,  \* raw notify events not yet received by the watcher loop
    pending,    \* the debounce map: path -> Instant of the last recorded raw event
    deadline,   \* when the running 50 ms timeout around notify_rx.recv() expires
    fs,         \* the filesystem: which paths exist
    hist,       \* history: raw events and promotions per path
    builder,    \* the GraphBuilder: graph, symbol_table, name_to_id, and whether build ran
    search,     \* a SearchIndex, the (name, handle) pairs in it, and the last search
    centrality, \* ArborGraph.centrality: score by node handle
    conn,       \* a Query RPC connection: its state and the last frame served
    store       \* a GraphStore: the db's main_graph entry, and the last load_graph result

graphVars == <<graph, last>>

serverVars == <<world, rx, ix, lock, log, cl, rd, committed, done, failed>>

watcherVars == <<now, notify_rx, pending, deadline, fs, hist>>

vars == <<graph, last, impact, world, rx, ix, lock, log, cl, rd, committed, done, failed,
          now, notify_rx, pending, deadline, fs, hist, builder, search,
          centrality, conn, store>>

-----------------------------------------------------------------------------
(* Bounds *)

MaxNodes == 3       \* add_node is not taken beyond this many live nodes
MaxEdges == 2       \* add_edge is not taken beyond this many live edges
MaxImpactEdges == 3 \* edges of the graphs analyze_impact is run on
MaxDepth == 2       \* analyze_impact is called with max_depth in 0..MaxDepth
MaxReindexEvents == 5   \* promoted events in the re-index specification
MaxBroadcastEvents == 2 \* promoted events in the broadcast specification
MaxQueue == 1       \* promoted events waiting in rx at any time
MaxRawEvents == 3   \* raw filesystem events in the watcher specification
MaxTime == 400      \* the clock stops advancing here (milliseconds)
TimeStep == 25      \* granularity of the clock (milliseconds)
MaxHops == 5            \* from_hops is applied to 0..MaxHops
MaxRpcNodes == 2        \* nodes of the graph behind the Query RPC
MaxRpcFrames == 2       \* frames served on the Query RPC connection
MaxScore == 1           \* centrality scores are 0..MaxScore
MaxLagEvents == 258     \* promoted events in the lagging-subscriber specification
MaxKindEdges == 2       \* edges of the graphs with several edge kinds
MaxAnyIdNodes == 2      \* live nodes when add_node is called with any id
MaxIndexInserts == 3    \* SearchIndex::insert calls
MaxSpotlightEvents == 2 \* promoted events beside the agent bridge
MaxDrainEvents == 2     \* raw events before the raw channel closes
MaxFocusMessages == 256 \* FocusNode messages broadcast after the last commit
MaxPipelineEvents == 2  \* raw filesystem events in the pipeline specification
MaxRefreshEvents == 3   \* promoted events in the unchanged-file specification
MaxRankingEvents == 2   \* promoted events after the ranking
MaxSaves == 2           \* GraphStore::save_graph calls
MaxStoreNodes == 2      \* live nodes of the graphs that are saved
MaxStoreEdges == 2      \* edges of the graphs that are saved
MaxBuilderNodes == 2    \* nodes handed to GraphBuilder::add_nodes
MaxReferences == 1      \* references per node handed to the builder

-----------------------------------------------------------------------------
(* Universe of symbols the extractor can emit *)

Files == {"f.rs", "g.rs"}

EdgeKinds == {"Calls", "Imports"}

CodeNode(id, name, file) == [id |-> id, name |-> name, file |-> file]

Symbols ==
    { CodeNode("f.rs:foo", "foo", "f.rs"),
      CodeNode("f.rs:bar", "bar", "f.rs"),
      CodeNode("g.rs:foo", "foo", "g.rs") }

-----------------------------------------------------------------------------
(* HashMap helpers: a map is a function whose DOMAIN is its key set *)

EmptyMap == [k \in {} |-> 0]

MapInsert(m, k, v) == [x \in (DOMAIN m) \cup {k} |-> IF x = k THEN v ELSE m[x]]

MapRemove(m, k) == [x \in (DOMAIN m) \ {k} |-> m[x]]

SeqToSet(s) == { s[i] : i \in 1..Len(s) }

-----------------------------------------------------------------------------
(* ArborGraph *)

ArborGraph_new ==
    [ nodes      |-> <<>>,
      edges      |-> <<>>,
      id_index   |-> EmptyMap,
      name_index |-> EmptyMap,
      file_index |-> EmptyMap ]

Edge(from, to, kind) == [from |-> from, to |-> to, kind |-> kind]

node_weight(G, index) ==
    IF index \in 1..Len(G.nodes) THEN <<G.nodes[index]>> ELSE <<>>

add_node(G, node) ==
    LET index == Len(G.nodes) + 1
        names == IF node.name \in DOMAIN G.name_index
                 THEN G.name_index[node.name] ELSE <<>>
        files == IF node.file \in DOMAIN G.file_index
                 THEN G.file_index[node.file] ELSE <<>>
    IN  [ G EXCEPT
            !.nodes      = Append(G.nodes, node),
            !.id_index   = MapInsert(G.id_index, node.id, index),
            !.name_index = MapInsert(G.name_index, node.name, Append(names, index)),
            !.file_index = MapInsert(G.file_index, node.file, Append(files, index)) ]

add_edge(G, from, to, kind) ==
    [ G EXCEPT !.edges = Append(G.edges, Edge(from, to, kind)) ]

\* petgraph Graph::remove_node: the edges of a are removed, then the node
\* vector is swap_remove'd, so the last node adopts index a and its edges
\* are re-pointed.  The relative order of the surviving edges in every
\* adjacency list is kept.
remove_node(G, a) ==
    IF a \notin 1..Len(G.nodes) THEN G
    ELSE
        LET old_index == Len(G.nodes)
            kept      == SelectSeq(G.edges, LAMBDA e : e.from # a /\ e.to # a)
            Move(i)   == IF i = old_index THEN a ELSE i
        IN  [ G EXCEPT
                !.nodes = [ i \in 1..(old_index - 1) |->
                              IF i = a THEN G.nodes[old_index] ELSE G.nodes[i] ],
                !.edges = [ i \in 1..Len(kept) |->
                              Edge(Move(kept[i].from), Move(kept[i].to), kept[i].kind) ] ]

RECURSIVE remove_file_loop(_, _)
remove_file_loop(G, indexes) ==
    IF indexes = <<>> THEN G
    ELSE
        LET index == Head(indexes)
            found == node_weight(G, index)
            G1 == IF found = <<>> THEN G
                  ELSE LET node == found[1]
                       IN [ G EXCEPT
                              !.name_index =
                                  IF node.name \in DOMAIN G.name_index
                                  THEN [ G.name_index EXCEPT ![node.name] =
                                           SelectSeq(@, LAMBDA idx : idx # index) ]
                                  ELSE G.name_index,
                              !.id_index = MapRemove(G.id_index, node.id) ]
        IN  remove_file_loop(remove_node(G1, index), Tail(indexes))

remove_file(G, file) ==
    IF file \in DOMAIN G.file_index
    THEN remove_file_loop([G EXCEPT !.file_index = MapRemove(G.file_index, file)],
                          G.file_index[file])
    ELSE G

get_by_id(G, id) ==
    IF id \in DOMAIN G.id_index THEN node_weight(G, G.id_index[id]) ELSE <<>>

get_index(G, id) ==
    IF id \in DOMAIN G.id_index THEN <<G.id_index[id]>> ELSE <<>>

\* filter_map over the stored handles: handles without a node are skipped
RECURSIVE weights_of(_, _)
weights_of(G, indexes) ==
    IF indexes = <<>> THEN <<>>
    ELSE node_weight(G, Head(indexes)) \o weights_of(G, Tail(indexes))

find_by_name(G, name) ==
    IF name \in DOMAIN G.name_index THEN weights_of(G, G.name_index[name]) ELSE <<>>

find_by_file(G, file) ==
    IF file \in DOMAIN G.file_index THEN weights_of(G, G.file_index[file]) ELSE <<>>

node_count(G) == Len(G.nodes)

edge_count(G) == Len(G.edges)

GraphEdge(G, e) ==
    [source |-> G.nodes[e.from].id, target |-> G.nodes[e.to].id, kind |-> e.kind]

export_edges(G) == [ i \in 1..Len(G.edges) |-> GraphEdge(G, G.edges[i]) ]

-----------------------------------------------------------------------------
(* GraphBuilder *)

BuilderIds == <<"n1", "n2", "n3", "n4">>

BuilderNames == {"x", "y"}

QualifiedNames == {"", "x", "p.x"}

ReferenceNames == {"x", "p.x", "q"}

RECURSIVE SeqsUpTo(_, _)
SeqsUpTo(S, n) ==
    IF n = 0 THEN {<<>>}
    ELSE LET shorter == SeqsUpTo(S, n - 1)
         IN  shorter \cup { Append(q, x) : q \in shorter, x \in S }

\* the fields of CodeNode the builder reads
BuilderNode(id, name, qualified_name, references) ==
    [ id |-> id, name |-> name, qualified_name |-> qualified_name,
      file |-> "test.rs", references |-> references ]

GraphBuilder_new ==
    [ graph      |-> ArborGraph_new,
      by_fqn     |-> EmptyMap,
      name_to_id |-> EmptyMap,
      built      |-> FALSE,
      before     |-> <<>> ]

\* SymbolTable::insert
symbol_table_insert(by_fqn, fqn, id) == MapInsert(by_fqn, fqn, id)

\* SymbolTable::resolve
symbol_table_resolve(by_fqn, fqn) ==
    IF fqn \in DOMAIN by_fqn THEN <<by_fqn[fqn]>> ELSE <<>>

\* the body of the loop of add_nodes for one node
builder_add_node(b, node) ==
    LET node_idx == Len(b.graph.nodes) + 1
        named    == MapInsert(b.name_to_id, node.name, node.id)
    IN  [ b EXCEPT
            !.graph      = add_node(b.graph, node),
            !.by_fqn     = IF node.qualified_name # ""
                           THEN symbol_table_insert(b.by_fqn, node.qualified_name, node_idx)
                           ELSE b.by_fqn,
            !.name_to_id = MapInsert(named, node.qualified_name, node.id) ]

\* the edges queued for one reference of the node at from_idx
resolve_reference(b, from_idx, reference) ==
    LET fqn == symbol_table_resolve(b.by_fqn, reference)
    IN  IF fqn # <<>> /\ fqn[1] # from_idx THEN <<Edge(from_idx, fqn[1], "Calls")>>
        ELSE IF reference \in DOMAIN b.name_to_id
             THEN LET to_idx == get_index(b.graph, b.name_to_id[reference])
                  IN  IF to_idx # <<>> /\ to_idx[1] # from_idx
                      THEN <<Edge(from_idx, to_idx[1], "Calls")>>
                      ELSE <<>>
             ELSE <<>>

RECURSIVE resolve_references(_, _, _)
resolve_references(b, from_idx, references) ==
    IF references = <<>> THEN <<>>
    ELSE resolve_reference(b, from_idx, Head(references))
         \o resolve_references(b, from_idx, Tail(references))

\* edges_to_add: every node in index order, its references in order
RECURSIVE edges_to_add(_, _)
edges_to_add(b, from_idx) ==
    IF from_idx > Len(b.graph.nodes) THEN <<>>
    ELSE resolve_references(b, from_idx, b.graph.nodes[from_idx].references)
         \o edges_to_add(b, from_idx + 1)

resolve_edges(b) ==
    [ b EXCEPT !.graph.edges = b.graph.edges \o edges_to_add(b, 1) ]

-----------------------------------------------------------------------------
(* Strings: a string is handled as the sequence of its characters *)

Chars(str) ==
    CASE str = "a"        -> <<"a">>
      [] str = "b"        -> <<"b">>
      [] str = "B"        -> <<"B">>
      [] str = "o"        -> <<"o">>
      [] str = "f"        -> <<"f">>
      [] str = "ab"       -> <<"a", "b">>
      [] str = "AB"       -> <<"A", "B">>
      [] str = "bc"       -> <<"b", "c">>
      [] str = "fo"       -> <<"f", "o">>
      [] str = "FO"       -> <<"F", "O">>
      [] str = "oo"       -> <<"o", "o">>
      [] str = "zz"       -> <<"z", "z">>
      [] str = "Abc"      -> <<"A", "b", "c">>
      [] str = "foo"      -> <<"f", "o", "o">>
      [] str = "bar"      -> <<"b", "a", "r">>
      [] str = "run"      -> <<"r", "u", "n">>
      [] str = "baz"      -> <<"b", "a", "z">>
      [] str = "Foo"      -> <<"F", "o", "o">>
      [] str = "abcde"    -> <<"a", "b", "c", "d", "e">>
      [] str = "abcdbcde" -> <<"a", "b", "c", "d", "b", "c", "d", "e">>
      [] OTHER            -> <<>>

\* char::to_lowercase on the characters in use
LowerChar(ch) ==
    CASE ch = "A" -> "a" [] ch = "B" -> "b" [] ch = "F" -> "f" [] ch = "O" -> "o"
      [] OTHER -> ch

\* str::to_lowercase
to_lowercase(chars) == [ i \in 1..Len(chars) |-> LowerChar(chars[i]) ]

\* str::contains
contains(chars, pattern) ==
    \E i \in 0..(Len(chars) - Len(pattern)) :
        SubSeq(chars, i + 1, i + Len(pattern)) = pattern

\* str::starts_with
starts_with(chars, pattern) ==
    Len(pattern) <= Len(chars) /\ SubSeq(chars, 1, Len(pattern)) = pattern

\* Vec::sort on node handles, as a sorted sequence of the set
RECURSIVE SortedHandles(_)
SortedHandles(S) ==
    IF S = {} THEN <<>>
    ELSE LET least == CHOOSE x \in S : \A y \in S : x <= y
         IN  <<least>> \o SortedHandles(S \ {least})

-----------------------------------------------------------------------------
(* SearchIndex *)

MIN_NGRAM_LEN == 2

MAX_NGRAM_LEN == 4

SearchIndex_new == [ exact_index |-> EmptyMap, ngram_index |-> EmptyMap ]

\* the n-grams of a lowercased string, as a set (every use is per n-gram)
generate_ngrams(chars) ==
    UNION { { SubSeq(chars, i + 1, i + n) : i \in 0..(Len(chars) - n) } :
              n \in { m \in MIN_NGRAM_LEN..MAX_NGRAM_LEN : Len(chars) >= m } }

search_index_insert(index, name, id) ==
    LET lower  == to_lowercase(Chars(name))
        ids    == IF lower \in DOMAIN index.exact_index
                  THEN index.exact_index[lower] ELSE <<>>
        ngrams == generate_ngrams(lower)
    IN  [ exact_index |-> MapInsert(index.exact_index, lower, Append(ids, id)),
          ngram_index |->
              [ g \in (DOMAIN index.ngram_index) \cup ngrams |->
                  (IF g \in DOMAIN index.ngram_index THEN index.ngram_index[g] ELSE {})
                  \cup (IF g \in ngrams THEN {id} ELSE {}) ] ]

search_index_remove(index, name, id) ==
    LET lower  == to_lowercase(Chars(name))
        ngrams == generate_ngrams(lower)
        exact  == IF lower \in DOMAIN index.exact_index
                  THEN LET ids == SelectSeq(index.exact_index[lower], LAMBDA x : x # id)
                       IN  IF ids = <<>> THEN MapRemove(index.exact_index, lower)
                           ELSE MapInsert(index.exact_index, lower, ids)
                  ELSE index.exact_index
        left(g) == IF g \in ngrams THEN index.ngram_index[g] \ {id}
                   ELSE index.ngram_index[g]
    IN  [ exact_index |-> exact,
          ngram_index |-> [ g \in { x \in DOMAIN index.ngram_index : left(x) # {} }
                              |-> left(g) ] ]

\* the filter that ensures a full substring match
search_index_filter(index, id, query_lower) ==
    \E name \in DOMAIN index.exact_index :
        id \in SeqToSet(index.exact_index[name]) /\ contains(name, query_lower)

search_index_search(index, query) ==
    LET query_lower == to_lowercase(Chars(query))
    IN  IF Len(query_lower) < MIN_NGRAM_LEN
        THEN SortedHandles(UNION { SeqToSet(index.exact_index[name]) :
                    name \in { n \in DOMAIN index.exact_index :
                                 starts_with(n, query_lower) } })
        ELSE
            LET query_ngrams == generate_ngrams(query_lower)
            IN  IF query_ngrams = {} THEN <<>>
                ELSE IF \E g \in query_ngrams : g \notin DOMAIN index.ngram_index
                THEN <<>>
                ELSE LET all == UNION { index.ngram_index[g] : g \in query_ngrams }
                         candidates == { id \in all :
                                           \A g \in query_ngrams :
                                               id \in index.ngram_index[g] }
                     IN  SortedHandles({ id \in candidates :
                               search_index_filter(index, id, query_lower) })

\* ArborGraph::search: a scan of the node weights
search_nodes(G, query) ==
    SelectSeq(G.nodes,
              LAMBDA node : contains(to_lowercase(Chars(node.name)),
                                     to_lowercase(Chars(query))))

-----------------------------------------------------------------------------
(* Blast radius: ArborGraph::analyze_impact and bfs_impact *)

usize_MAX == 2147483647     \* stands for usize::MAX; only compared against

\* variant: three hops are already Distant
from_hops_narrow(hops) ==
    IF hops \in {0, 1} THEN "Direct"
    ELSE IF hops = 2 THEN "Transitive"
    ELSE "Distant"

from_hops(hops) ==
    IF hops \in {0, 1} THEN "Direct"
    ELSE IF hops \in {2, 3} THEN "Transitive"
    ELSE "Distant"

\* derived Ord of ImpactSeverity: the discriminants
SeverityRank(sev) ==
    CASE sev = "Direct" -> 0 [] sev = "Transitive" -> 1 [] sev = "Distant" -> 2

\* String::cmp on the node ids in use: they differ in their first byte
IdRank(id) ==
    CASE id = "a" -> 1 [] id = "b" -> 2 [] id = "c" -> 3 [] id = "d" -> 4
      [] OTHER -> 0

Reverse(s) == [ i \in 1..Len(s) |-> s[Len(s) + 1 - i] ]

\* petgraph edges_directed: the adjacency list of a node, newest edge first
edges_directed(G, node, direction) ==
    Reverse(SelectSeq(G.edges,
        LAMBDA e : IF direction = "Incoming" THEN e.to = node ELSE e.from = node))

Neighbor(e, direction) == IF direction = "Incoming" THEN e.from ELSE e.to

\* the sort_by comparator of bfs_impact: severity, hop_distance, id
AffectedLess(x, y) ==
    \/ SeverityRank(x.severity) < SeverityRank(y.severity)
    \/ /\ x.severity = y.severity
       /\ \/ x.hop_distance < y.hop_distance
          \/ x.hop_distance = y.hop_distance /\ IdRank(x.id) < IdRank(y.id)

\* stable insertion of x into the sorted sequence s
RECURSIVE SortedInsert(_, _)
SortedInsert(s, x) ==
    IF s = <<>> THEN <<x>>
    ELSE IF AffectedLess(x, Head(s)) THEN <<x>> \o s
    ELSE <<Head(s)>> \o SortedInsert(Tail(s), x)

\* variant: the traversal order is returned as it is
sort_affected_none(s) == s

RECURSIVE sort_affected(_)
sort_affected(s) ==
    IF s = <<>> THEN <<>>
    ELSE SortedInsert(sort_affected(SubSeq(s, 1, Len(s) - 1)), s[Len(s)])

\* petgraph neighbors_directed: one neighbour per edge, newest edge first
neighbors_directed(G, node, direction) ==
    LET es == edges_directed(G, node, direction)
    IN  [ i \in 1..Len(es) |-> Neighbor(es[i], direction) ]

\* DiGraph::find_edge: the first edge of a's outgoing list that ends at b,
\* 0 for None
find_edge(G, a, b) ==
    LET out == SelectSeq(edges_directed(G, a, "Outgoing"), LAMBDA e : e.to = b)
    IN  IF out = <<>> THEN 0 ELSE CHOOSE k \in 1..Len(G.edges) : G.edges[k] = out[1]

\* the filter_map closure of get_callers and get_callees
is_call_edge(G, from, to) ==
    /\ find_edge(G, from, to) # 0
    /\ G.edges[find_edge(G, from, to)].kind = "Calls"

get_callers(G, index) ==
    LET found == SelectSeq(neighbors_directed(G, index, "Incoming"),
                           LAMBDA idx : is_call_edge(G, idx, index))
    IN  [ i \in 1..Len(found) |-> node_weight(G, found[i])[1] ]

get_callees(G, index) ==
    LET found == SelectSeq(neighbors_directed(G, index, "Outgoing"),
                           LAMBDA idx : is_call_edge(G, index, idx))
    IN  [ i \in 1..Len(found) |-> node_weight(G, found[i])[1] ]

\* variant: the start node is recorded like any other
dependents_record_all(current, index) == TRUE

\* get_dependents records every visited node but the start node
dependents_record(current, index) == current # index

\* queue.push for every neighbour not yet visited
RECURSIVE dependents_push(_, _, _, _)
dependents_push(neighbors, depth, visited, queue) ==
    IF neighbors = <<>> THEN queue
    ELSE dependents_push(Tail(neighbors), depth, visited,
                         IF Head(neighbors) \notin visited
                         THEN Append(queue, <<Head(neighbors), depth + 1>>)
                         ELSE queue)

\* the while loop of get_dependents; queue is a Vec used as a stack
RECURSIVE dependents_loop(_, _, _, _, _, _)
dependents_loop(G, index, max_depth, queue, visited, result) ==
    IF queue = <<>> THEN result
    ELSE
        LET current == queue[Len(queue)][1]
            depth   == queue[Len(queue)][2]
            rest    == SubSeq(queue, 1, Len(queue) - 1)
        IN  IF depth > max_depth \/ current \in visited
            THEN dependents_loop(G, index, max_depth, rest, visited, result)
            ELSE
                LET visited1 == visited \cup {current}
                    result1  == IF dependents_record(current, index)
                                THEN Append(result, <<current, depth>>)
                                ELSE result
                IN  dependents_loop(G, index, max_depth,
                        dependents_push(neighbors_directed(G, current, "Incoming"),
                                        depth, visited1, rest),
                        visited1, result1)

get_dependents(G, index, max_depth) ==
    dependents_loop(G, index, max_depth, << <<index, 0>> >>, {}, <<>>)

effective_depth(max_depth) == IF max_depth = 0 THEN usize_MAX ELSE max_depth

\* seeding of the queue with the immediate neighbours of the target
RECURSIVE bfs_seed(_, _, _, _, _)
bfs_seed(es, direction, visited, queue, entry_edges) ==
    IF es = <<>> THEN [queue |-> queue, entry_edges |-> entry_edges]
    ELSE
        LET neighbor == Neighbor(Head(es), direction)
        IN  IF neighbor \notin visited
            THEN bfs_seed(Tail(es), direction, visited,
                          Append(queue, <<neighbor, 1, Head(es).kind>>),
                          MapInsert(entry_edges, neighbor, Head(es).kind))
            ELSE bfs_seed(Tail(es), direction, visited, queue, entry_edges)

\* the inner loop over the edges of the node being expanded
RECURSIVE bfs_expand(_, _, _, _, _, _, _)
bfs_expand(es, direction, depth, entry_edge, visited, queue, entry_edges) ==
    IF es = <<>> THEN [queue |-> queue, entry_edges |-> entry_edges]
    ELSE
        LET neighbor == Neighbor(Head(es), direction)
        IN  IF neighbor \notin visited
            THEN LET next_entry == IF neighbor \in DOMAIN entry_edges
                                   THEN entry_edges[neighbor] ELSE entry_edge
                 IN  bfs_expand(Tail(es), direction, depth, entry_edge, visited,
                                Append(queue, <<neighbor, depth + 1, next_entry>>),
                                IF neighbor \in DOMAIN entry_edges THEN entry_edges
                                ELSE MapInsert(entry_edges, neighbor, Head(es).kind))
            ELSE bfs_expand(Tail(es), direction, depth, entry_edge, visited,
                            queue, entry_edges)

\* variant: the depth bound excludes the last level
bfs_skip_short(current, depth, max_depth, visited) ==
    depth >= max_depth \/ current \in visited

\* the `continue` test at the head of the while loop
bfs_skip(current, depth, max_depth, visited) ==
    depth > max_depth \/ current \in visited

\* the while loop of bfs_impact
RECURSIVE bfs_loop(_, _, _, _, _, _, _)
bfs_loop(G, direction, max_depth, queue, visited, entry_edges, result) ==
    IF queue = <<>> THEN result
    ELSE
        LET current    == Head(queue)[1]
            depth      == Head(queue)[2]
            entry_edge == Head(queue)[3]
            rest       == Tail(queue)
        IN  IF bfs_skip(current, depth, max_depth, visited)
            THEN bfs_loop(G, direction, max_depth, rest, visited, entry_edges, result)
            ELSE
                LET visited1 == visited \cup {current}
                    found    == node_weight(G, current)
                    result1  ==
                        IF found = <<>> THEN result
                        ELSE Append(result,
                               [ node_id      |-> current,
                                 id           |-> found[1].id,
                                 severity     |-> from_hops(depth),
                                 hop_distance |-> depth,
                                 entry_edge   |-> entry_edge,
                                 direction    |-> IF direction = "Incoming"
                                                  THEN "Upstream" ELSE "Downstream" ])
                    ex == IF depth < max_depth
                          THEN bfs_expand(edges_directed(G, current, direction),
                                          direction, depth, entry_edge, visited1,
                                          rest, entry_edges)
                          ELSE [queue |-> rest, entry_edges |-> entry_edges]
                IN  bfs_loop(G, direction, max_depth, ex.queue, visited1,
                             ex.entry_edges, result1)

bfs_impact(G, target, direction, max_depth) ==
    LET seed == bfs_seed(edges_directed(G, target, direction), direction,
                         {target}, <<>>, EmptyMap)
    IN  sort_affected(bfs_loop(G, direction, max_depth, seed.queue, {target},
                               seed.entry_edges, <<>>))

analyze_impact(G, target, max_depth) ==
    IF node_weight(G, target) = <<>>
    THEN [ target |-> "", upstream |-> <<>>, downstream |-> <<>>,
           total_affected |-> 0, max_depth |-> max_depth ]
    ELSE
        LET upstream   == bfs_impact(G, target, "Incoming", effective_depth(max_depth))
            downstream == bfs_impact(G, target, "Outgoing", effective_depth(max_depth))
        IN  [ target         |-> G.nodes[target].id,
              upstream       |-> upstream,
              downstream     |-> downstream,
              total_affected |-> Len(upstream) + Len(downstream),
              max_depth      |-> max_depth ]

\* ImpactAnalysis::all_affected: upstream chained with downstream, sorted
all_affected(analysis) == sort_affected(analysis.upstream \o analysis.downstream)

\* filter_map of handle_impact: dependents whose handle holds a node
RECURSIVE dependent_infos(_, _)
dependent_infos(G, dependents) ==
    IF dependents = <<>> THEN <<>>
    ELSE LET found == node_weight(G, Head(dependents)[1])
         IN  (IF found = <<>> THEN <<>>
              ELSE << [ node |-> found[1].id, relationship |-> "calls",
                        depth |-> Head(dependents)[2] ] >>)
             \o dependent_infos(G, Tail(dependents))

\* the `impact` RPC
handle_impact(G, node, depth) ==
    LET target_idx == get_index(G, node)
    IN  IF target_idx = <<>>
        THEN [ error |-> -32001 ]
        ELSE LET dependents == get_dependents(G, target_idx[1], depth)
             IN  [ error         |-> 0,
                   target        |-> node_weight(G, target_idx[1]),
                   dependents    |-> dependent_infos(G, dependents),
                   totalAffected |-> Len(dependents) ]

-----------------------------------------------------------------------------
(* GraphStore: save_graph, load_graph, clear over bincode and sled *)

\* sled::open on a fresh path: no main_graph entry; nothing loaded yet
GraphStore_open ==
    [db |-> <<>>, saves |-> 0, saved |-> <<>>, loaded |-> [kind |-> "unset"]]

\* the keys of a HashMap in one iteration order, and in the opposite one
RECURSIVE KeysInOrder(_)
KeysInOrder(keys) ==
    IF keys = {} THEN <<>>
    ELSE LET k == CHOOSE k \in keys : TRUE
         IN  <<k>> \o KeysInOrder(keys \ {k})

IterationOrder(m, reversed) ==
    LET keys == KeysInOrder(DOMAIN m)
    IN  IF reversed THEN [ i \in 1..Len(keys) |-> keys[Len(keys) + 1 - i] ] ELSE keys

\* NodeIndex is serialized as its zero-based number
serialize_index(index) == index - 1

deserialize_index(number) == number + 1

\* a HashMap is written as its length and its entries in iteration order
serialize_map(m, reversed, Value(_)) ==
    LET keys == IterationOrder(m, reversed)
    IN  [ i \in 1..Len(keys) |-> <<keys[i], Value(m[keys[i]])>> ]

\* the entries are inserted in the order read: the last one of a key stays
deserialize_map(entries, Value(_)) ==
    [ k \in { entries[i][1] : i \in 1..Len(entries) } |->
        LET i == CHOOSE i \in 1..Len(entries) :
                    /\ entries[i][1] = k
                    /\ \A j \in (i + 1)..Len(entries) : entries[j][1] # k
        IN  Value(entries[i][2]) ]

serialize_indexes(indexes) == [ i \in 1..Len(indexes) |-> serialize_index(indexes[i]) ]

deserialize_indexes(numbers) == [ i \in 1..Len(numbers) |-> deserialize_index(numbers[i]) ]

\* bincode::serialize of the derived Serialize of ArborGraph: petgraph writes
\* the node weights in index order and each edge as (source, target, weight)
serialize_graph(G, C, reversed) ==
    [ nodes      |-> G.nodes,
      edges      |-> [ i \in 1..Len(G.edges) |->
                         << serialize_index(G.edges[i].from),
                            serialize_index(G.edges[i].to), G.edges[i].kind >> ],
      id_index   |-> serialize_map(G.id_index, reversed, serialize_index),
      name_index |-> serialize_map(G.name_index, reversed, serialize_indexes),
      file_index |-> serialize_map(G.file_index, reversed, serialize_indexes),
      centrality |-> [ h \in 1..Len(KeysInOrder(DOMAIN C)) |->
                         << serialize_index(IterationOrder(C, reversed)[h]),
                            C[IterationOrder(C, reversed)[h]] >> ] ]

\* variant: the edges are not read back
deserialize_graph_nodes_only(bytes) ==
    [ ok    |-> TRUE,
      graph |-> [ nodes      |-> bytes.nodes,
                  edges      |-> <<>>,
                  id_index   |-> deserialize_map(bytes.id_index, deserialize_index),
                  name_index |-> deserialize_map(bytes.name_index, deserialize_indexes),
                  file_index |-> deserialize_map(bytes.file_index, deserialize_indexes) ],
      centrality |-> EmptyMap ]

\* bincode::deserialize: petgraph rebuilds the graph from the node list and
\* the edge list and rejects an edge whose endpoint is no node
deserialize_graph(bytes) ==
    IF \E i \in 1..Len(bytes.edges) :
          \/ deserialize_index(bytes.edges[i][1]) \notin 1..Len(bytes.nodes)
          \/ deserialize_index(bytes.edges[i][2]) \notin 1..Len(bytes.nodes)
    THEN [ok |-> FALSE]
    ELSE [ ok    |-> TRUE,
           graph |-> [ nodes      |-> bytes.nodes,
                       edges      |-> [ i \in 1..Len(bytes.edges) |->
                                          Edge(deserialize_index(bytes.edges[i][1]),
                                               deserialize_index(bytes.edges[i][2]),
                                               bytes.edges[i][3]) ],
                       id_index   |-> deserialize_map(bytes.id_index, deserialize_index),
                       name_index |-> deserialize_map(bytes.name_index, deserialize_indexes),
                       file_index |-> deserialize_map(bytes.file_index, deserialize_indexes) ],
           centrality |-> LET scores == [ i \in 1..Len(bytes.centrality) |->
                                            << deserialize_index(bytes.centrality[i][1]),
                                               bytes.centrality[i][2] >> ]
                          IN  [ h \in { scores[i][1] : i \in 1..Len(scores) } |->
                                  scores[CHOOSE i \in 1..Len(scores) : scores[i][1] = h][2] ] ]

\* db.insert("main_graph", bytes): the entry is replaced
save_graph(db, G, C, reversed) == <<serialize_graph(G, C, reversed)>>

\* db.get("main_graph") and deserialize
load_graph(db) ==
    IF db = <<>> THEN [kind |-> "None"]
    ELSE LET read == deserialize_graph(db[1])
         IN  IF read.ok
             THEN [kind |-> "Some", graph |-> read.graph, centrality |-> read.centrality]
             ELSE [kind |-> "Err"]

\* db.remove("main_graph")
store_clear(db) == <<>>

-----------------------------------------------------------------------------
(* Query RPC: process_message and the handlers *)

Null == "null"

\* what serde_json makes of a text frame: no Request, or a Request whose
\* params do or do not deserialize into the method's parameter type
NotARequest == [kind |-> "text", parses |-> FALSE]

Request(id, method, params) ==
    [kind |-> "text", parses |-> TRUE, id |-> id, method |-> method, params |-> params]

BadParams == [valid |-> FALSE]

ImpactParams(node, depth) == [valid |-> TRUE, node |-> node, depth |-> depth]

NodeGetParams(id) == [valid |-> TRUE, id |-> id]

DiscoverParams(query, limit) == [valid |-> TRUE, query |-> query, limit |-> limit]

Response_parse_error == [id |-> Null, error |-> -32700]

Response_method_not_found(id) == [id |-> id, error |-> -32601]

Response_invalid_params(id) == [id |-> id, error |-> -32602]

Response_error(id, code) == [id |-> id, error |-> code]

Response_success(id, result) == [id |-> id, error |-> 0, result |-> result]

\* what the handler of the last text frame read under its guard
NothingRead == [graph |-> ArborGraph_new, centrality |-> EmptyMap]

ConnectionOpen ==
    [pc |-> "open", served |-> 0, frame |-> [kind |-> "none"], replies |-> <<>>,
     read |-> NothingRead]

\* ArborGraph::centrality
centrality_of(C, index) == IF index \in DOMAIN C THEN C[index] ELSE 0

\* get_index(..).unwrap_or_default(): the default handle is the first one
index_or_default(G, id) ==
    IF get_index(G, id) = <<>> THEN 1 ELSE get_index(G, id)[1]

NodeInfo(node, score) == [id |-> node.id, name |-> node.name, centrality |-> score]

\* the place of x in a list sorted by the comparator of handle_discover:
\* behind every entry that does not compare greater (sort_by is stable)
RECURSIVE insert_by_centrality(_, _)
insert_by_centrality(sorted, x) ==
    IF sorted = <<>> THEN <<x>>
    ELSE IF Head(sorted).centrality < x.centrality THEN <<x>> \o sorted
    ELSE <<Head(sorted)>> \o insert_by_centrality(Tail(sorted), x)

RECURSIVE sort_by_centrality(_)
sort_by_centrality(matches) ==
    IF matches = <<>> THEN <<>>
    ELSE insert_by_centrality(
             sort_by_centrality(SubSeq(matches, 1, Len(matches) - 1)),
             matches[Len(matches)])

\* Vec::truncate
truncate(list, len) == IF Len(list) > len THEN SubSeq(list, 1, len) ELSE list

handle_info(G, id) ==
    Response_success(id, [nodeCount |-> node_count(G), edgeCount |-> edge_count(G)])

handle_discover(G, C, id, params) ==
    LET found   == search_nodes(G, params.query)
        matches == [ i \in 1..Len(found) |->
                       NodeInfo(found[i],
                                centrality_of(C, index_or_default(G, found[i].id))) ]
    IN  Response_success(id,
            [nodes |-> truncate(sort_by_centrality(matches), params.limit)])

ContextParams(task, maxTokens) == [valid |-> TRUE, task |-> task, maxTokens |-> maxTokens]

SearchParams(query, limit) == [valid |-> TRUE, query |-> query, limit |-> limit]

\* CodeNode::line_start and line_end of the symbols, by id
line_start(id) ==
    CASE id = "f.rs:foo" -> 1 [] id = "f.rs:bar" -> 5 [] id = "g.rs:foo" -> 2 [] OTHER -> 1

line_end(id) ==
    CASE id = "f.rs:foo" -> 3 [] id = "f.rs:bar" -> 5 [] id = "g.rs:foo" -> 3 [] OTHER -> 1

estimated_tokens(node) == ((line_end(node.id) - line_start(node.id)) * 40) \div 4

\* the for loop of handle_context: push until the next node does not fit
RECURSIVE select_within(_, _, _, _)
select_within(matches, selected, total_tokens, max_tokens) ==
    IF matches = <<>> \/ total_tokens + estimated_tokens(Head(matches)) > max_tokens
    THEN [nodes |-> selected, totalTokens |-> total_tokens]
    ELSE select_within(Tail(matches), Append(selected, Head(matches)),
                       total_tokens + estimated_tokens(Head(matches)), max_tokens)

handle_context(G, C, id, params) ==
    LET found   == search_nodes(G, params.task)
        matches == [ i \in 1..Len(found) |->
                       NodeInfo(found[i],
                                centrality_of(C, index_or_default(G, found[i].id))) ]
    IN  Response_success(id,
            select_within(sort_by_centrality(matches), <<>>, 0, params.maxTokens))

handle_search(G, id, params) ==
    LET found   == search_nodes(G, params.query)
        matches == [ i \in 1..Len(found) |-> NodeInfo(found[i], 0) ]
    IN  Response_success(id,
            [nodes |-> truncate(matches, params.limit), total |-> Len(matches)])

\* handle_impact with the request id
handle_impact_rpc(G, id, params) ==
    [id |-> id] @@ handle_impact(G, params.node, params.depth)

\* get_index(&node.id).unwrap() panics when the id has no handle
handle_node_get(G, id, params) ==
    LET found == get_by_id(G, params.id)
    IN  IF found = <<>> THEN Response_error(id, -32001)
        ELSE IF get_index(G, found[1].id) = <<>> THEN [panicked |-> TRUE]
        ELSE LET idx     == get_index(G, found[1].id)[1]
                 callers == get_callers(G, idx)
                 callees == get_callees(G, idx)
             IN  Response_success(id,
                     [ id       |-> found[1].id,
                       name     |-> found[1].name,
                       calledBy |-> [ i \in 1..Len(callers) |-> callers[i].id ],
                       calls    |-> [ i \in 1..Len(callees) |-> callees[i].id ] ])

\* variant: the reply to a request with bad params carries no id
route_params_anonymous(G, C, request, handler_response) ==
    IF request.params.valid THEN handler_response
    ELSE Response_invalid_params(Null)

\* serde_json::from_value into the parameter type, then the handler
route_params(G, C, request, handler_response) ==
    IF request.params.valid THEN handler_response
    ELSE Response_invalid_params(request.id)

process_message(G, C, text) ==
    IF ~text.parses THEN Response_parse_error
    ELSE CASE text.method = "graph.info" -> handle_info(G, text.id)
           [] text.method = "discover" ->
                route_params(G, C, text, handle_discover(G, C, text.id, text.params))
           [] text.method = "impact" ->
                route_params(G, C, text, handle_impact_rpc(G, text.id, text.params))
           [] text.method = "context" ->
                route_params(G, C, text, handle_context(G, C, text.id, text.params))
           [] text.method = "search" ->
                route_params(G, C, text, handle_search(G, text.id, text.params))
           [] text.method = "node.get" ->
                route_params(G, C, text, handle_node_get(G, text.id, text.params))
           [] OTHER -> Response_method_not_found(text.id)

-----------------------------------------------------------------------------
(* Agent bridge: McpServer::run_stdio, handle_request and call_tool *)

BlankLine == [kind |-> "blank"]

NoToolName == [has_name |-> FALSE]

ToolCall(name, node) == [has_name |-> TRUE, name |-> name, node |-> node]

\* generate_context: the node by id, else by name; graph.get(..).unwrap()
\* panics on a handle without a node
generate_context(G, C, node_start) ==
    LET by_name  == find_by_name(G, node_start)
        node_idx == IF get_index(G, node_start) # <<>> THEN get_index(G, node_start)
                    ELSE IF by_name # <<>> THEN get_index(G, by_name[1].id)
                    ELSE <<>>
    IN  IF node_idx = <<>> THEN [found |-> FALSE]
        ELSE IF node_weight(G, node_idx[1]) = <<>> THEN [panicked |-> TRUE]
        ELSE LET callers == get_callers(G, node_idx[1])
                 callees == get_callees(G, node_idx[1])
             IN  [ found   |-> TRUE,
                   name    |-> node_weight(G, node_idx[1])[1].name,
                   file    |-> node_weight(G, node_idx[1])[1].file,
                   impact  |-> centrality_of(C, node_idx[1]),
                   callees |-> [ i \in 1..Len(callees) |-> callees[i].name ],
                   callers |-> [ i \in 1..Len(callers) |-> callers[i].name ] ]

call_tool(G, C, params) ==
    IF ~params.has_name THEN [error |-> -32602]
    ELSE IF params.name \in {"get_logic_path", "analyze_impact"}
         THEN LET context == generate_context(G, C, params.node)
              IN  IF "panicked" \in DOMAIN context THEN context
                  ELSE [error |-> 0, tool |-> params.name, content |-> context]
         ELSE [error |-> -32601]

handle_request(G, C, req) ==
    LET result ==
          CASE req.method = "initialize"                -> [error |-> 0]
            [] req.method = "notifications/initialized" -> [error |-> 0]
            [] req.method = "tools/list"                -> [error |-> 0]
            [] req.method = "tools/call"                -> call_tool(G, C, req.params)
            [] OTHER                                    -> [error |-> -32601]
    IN  IF "panicked" \in DOMAIN result THEN result
        ELSE [id |-> req.id] @@ result

\* SyncServerHandle::spotlight_node: the FocusNode message
FocusNode(node) ==
    [type |-> "FocusNode", node_id |-> node.id, file |-> node.file,
     line |-> line_start(node.id)]

\* trigger_spotlight: the node by id, else the first node of that name; the
\* messages it broadcasts
trigger_spotlight(G, node_name) ==
    LET node == IF get_index(G, node_name) # <<>>
                THEN node_weight(G, get_index(G, node_name)[1])
                ELSE find_by_name(G, node_name)
    IN  IF node = <<>> THEN <<>> ELSE <<FocusNode(node[1])>>

\* the lines run_stdio writes for one line read
run_stdio_line(G, C, line) ==
    IF line.kind = "blank" THEN <<>>
    ELSE IF ~line.parses THEN <<>>
    ELSE <<handle_request(G, C, line)>>

-----------------------------------------------------------------------------
(* Sync server: shared graph, re-indexer, broadcast channel, readers *)

Clients == {"c1", "c2"}

Queries == {"q1"}

BroadcastCapacity == 256

Relation(from_id, to_name, kind) ==
    [from_id |-> from_id, to_name |-> to_name, kind |-> kind]

ParseResult(file_path, symbols, relations) ==
    [file_path |-> file_path, symbols |-> symbols, relations |-> relations]

\* what parse_file can return for a path, depending on the file's content
Contents(path) ==
    CASE path = "f.rs" ->
           { ParseResult("f.rs", <<CodeNode("f.rs:foo", "foo", "f.rs")>>, <<>>),
             ParseResult("f.rs", <<CodeNode("f.rs:foo", "foo", "f.rs"),
                                   CodeNode("f.rs:bar", "bar", "f.rs")>>, <<>>),
             ParseResult("f.rs", <<CodeNode("f.rs:foo", "foo", "f.rs")>>,
                                 <<Relation("f.rs:foo", "run", "Calls")>>) }
      [] path = "g.rs" ->
           { ParseResult("g.rs", <<CodeNode("g.rs:run", "run", "g.rs")>>, <<>>) }
      [] path = "h.rs" ->
           { ParseResult("h.rs", <<CodeNode("h.rs:baz", "baz", "h.rs")>>, <<>>) }
      [] OTHER -> {}

WatcherEvent(kind, path) == [kind |-> kind, path |-> path]

GraphUpdate(G, is_delta, changed_files) ==
    [ type          |-> "GraphUpdate",
      is_delta      |-> is_delta,
      node_count    |-> node_count(G),
      edge_count    |-> edge_count(G),
      file_count    |-> Cardinality(DOMAIN G.file_index),
      changed_files |-> changed_files,
      nodes         |-> G.nodes,
      edges         |-> export_edges(G) ]

\* number of re-index commits broadcast so far
Commits(messages) ==
    Cardinality({ i \in 1..Len(messages) : messages[i].msg.type = "GraphUpdate" })

IndexerIdle == [pc |-> "recv"]

NoRecv == [kind |-> "none", overwritten |-> FALSE]

NoClient == [pc |-> "none", cursor |-> 0, out |-> <<>>, sent |-> <<>>,
             start |-> 0, lagged |-> <<>>, recv |-> NoRecv]

NoEvent == [outcome |-> "none"]

\* the debouncer's constants and its state at the first notify_rx.recv()
debounce_ms == 150

wake_ms == 50

Paths == {"f.rs", "g.rs", "notes.md"}

\* variant: no extension filter
should_process_any(path) == path \in Paths

\* the configured extensions include rs and not md
should_process_file(path) == path \in {"f.rs", "g.rs"}

NoHistory ==
    [ raws     |-> 0,                           \* raw events so far
      raw_last |-> [p \in Paths |-> -1],        \* time of the latest recorded event
      burst    |-> [p \in Paths |-> 0],         \* number of the current burst
      size     |-> [p \in Paths |-> 0],         \* recorded events of the current burst
      promos   |-> {} ]                         \* promotions made

\* the state at the first notify_rx.recv(): nothing pending, timeout armed
WatcherIdle ==
    /\ now = 0
    /\ notify_rx = <<>>
    /\ pending = EmptyMap
    /\ deadline = wake_ms
    /\ fs = [p \in Paths |-> TRUE]
    /\ hist = NoHistory

ServerWith(w, connections) ==
    /\ world = w
    /\ rx = <<>>
    /\ ix = IndexerIdle
    /\ lock = [writer |-> FALSE, readers |-> {}]
    /\ log = <<>>
    /\ cl = connections
    /\ rd = [q \in Queries |-> "idle"]
    /\ committed = ArborGraph_new
    /\ done = NoEvent
    /\ failed = {}
    /\ WatcherIdle
    /\ builder = GraphBuilder_new
    /\ search = [ index |-> SearchIndex_new, pairs |-> {}, inserts |-> 0,
                  op |-> "none" ]
    /\ centrality = EmptyMap
    /\ conn = ConnectionOpen
    /\ store = GraphStore_open

ServerIdle(w) == ServerWith(w, [c \in Clients |-> NoClient])

\* RwLock::write: granted when nobody holds the lock
write_available(l) == ~l.writer /\ l.readers = {}

\* RwLock::read: granted when no writer holds the lock or is queued for it
read_available(l, indexer) == ~l.writer /\ indexer.pc # "wait_write"

\* the watcher hands a promoted event to the re-indexer
Promote(kind, path) ==
    /\ world.events > 0
    /\ Len(rx) < MaxQueue
    /\ path \in world.files
    /\ rx' = Append(rx, WatcherEvent(kind, path))
    /\ world' = [world EXCEPT !.events = @ - 1]
    /\ UNCHANGED <<store, centrality, conn, search, builder, watcherVars, graphVars, impact, ix, lock, log, cl, rd, committed, done, failed>>

\* rx.recv() of a Changed event whose parse succeeds
IndexerParseOk(result) ==
    /\ ix.pc = "recv"
    /\ rx # <<>>
    /\ Head(rx).kind = "Changed"
    /\ result \in Contents(Head(rx).path)
    /\ rx' = Tail(rx)
    /\ ix' = [pc |-> "wait_write", event |-> Head(rx), result |-> result,
              node_ids |-> EmptyMap, log_start |-> Len(log)]
    /\ UNCHANGED <<store, centrality, conn, search, builder, watcherVars, graphVars, impact, world, lock, log, cl, rd, committed, done, failed>>

\* rx.recv() of a Changed event whose parse fails: warn and go on
IndexerParseErr ==
    /\ ix.pc = "recv"
    /\ rx # <<>>
    /\ Head(rx).kind = "Changed"
    /\ rx' = Tail(rx)
    /\ done' = [outcome |-> "parse_error", event |-> Head(rx), symbols |-> <<>>,
                messages |-> <<>>]
    /\ failed' = failed \cup {Head(rx).path}
    /\ UNCHANGED <<store, centrality, conn, search, builder, watcherVars, graphVars, impact, world, ix, lock, log, cl, rd, committed>>

\* rx.recv() of a Deleted event
IndexerDeleted ==
    /\ ix.pc = "recv"
    /\ rx # <<>>
    /\ Head(rx).kind = "Deleted"
    /\ rx' = Tail(rx)
    /\ ix' = [pc |-> "wait_write", event |-> Head(rx),
              result |-> ParseResult(Head(rx).path, <<>>, <<>>),
              node_ids |-> EmptyMap, log_start |-> Len(log)]
    /\ UNCHANGED <<store, centrality, conn, search, builder, watcherVars, graphVars, impact, world, lock, log, cl, rd, committed, done, failed>>

\* graph.write().await
IndexerAcquireWrite ==
    /\ ix.pc = "wait_write"
    /\ write_available(lock)
    /\ lock' = [lock EXCEPT !.writer = TRUE]
    /\ ix' = [ix EXCEPT !.pc = "remove"]
    /\ UNCHANGED <<store, centrality, conn, search, builder, watcherVars, graphVars, impact, world, rx, log, cl, rd, committed, done, failed>>

\* g.remove_file(..)
IndexerRemoveFile ==
    /\ ix.pc = "remove"
    /\ graph' = remove_file(graph, ix.result.file_path)
    /\ ix' = [ix EXCEPT !.pc = IF ix.event.kind = "Changed" THEN "add_nodes"
                                ELSE "broadcast"]
    /\ UNCHANGED <<store, centrality, conn, search, builder, watcherVars, last, impact, world, rx, lock, log, cl, rd, committed, done, failed>>

\* the loop over result.symbols
RECURSIVE index_symbols(_, _, _)
index_symbols(G, node_ids, symbols) ==
    IF symbols = <<>> THEN [G |-> G, node_ids |-> node_ids]
    ELSE index_symbols(add_node(G, Head(symbols)),
                       MapInsert(node_ids, Head(symbols).id, Len(G.nodes) + 1),
                       Tail(symbols))

IndexerAddNodes ==
    /\ ix.pc = "add_nodes"
    /\ LET r == index_symbols(graph, ix.node_ids, ix.result.symbols)
       IN  /\ graph' = r.G
           /\ ix' = [ix EXCEPT !.pc = "add_edges", !.node_ids = r.node_ids]
    /\ UNCHANGED <<store, centrality, conn, search, builder, watcherVars, last, impact, world, rx, lock, log, cl, rd, committed, done, failed>>

\* the loop over result.relations; petgraph's add_edge panics when an
\* endpoint handle is out of bounds
RECURSIVE index_relations(_, _, _)
index_relations(G, node_ids, relations) ==
    IF relations = <<>> THEN [G |-> G, panicked |-> FALSE]
    ELSE
        LET relation == Head(relations)
            targets  == find_by_name(G, relation.to_name)
            to_id    == IF targets = <<>> THEN <<>> ELSE get_index(G, targets[1].id)
        IN  IF relation.from_id \in DOMAIN node_ids /\ to_id # <<>>
            THEN IF to_id[1] \in 1..Len(G.nodes)
                 THEN index_relations(
                          add_edge(G, node_ids[relation.from_id], to_id[1], relation.kind),
                          node_ids, Tail(relations))
                 ELSE [G |-> G, panicked |-> TRUE]
            ELSE index_relations(G, node_ids, Tail(relations))

\* a panic unwinds the task: the write guard is dropped, the loop is gone
IndexerAddEdges ==
    /\ ix.pc = "add_edges"
    /\ LET r == index_relations(graph, ix.node_ids, ix.result.relations)
       IN  /\ graph' = r.G
           /\ ix' = [ix EXCEPT !.pc = IF r.panicked THEN "panicked" ELSE "broadcast"]
           /\ lock' = IF r.panicked THEN [lock EXCEPT !.writer = FALSE] ELSE lock
    /\ UNCHANGED <<store, centrality, conn, search, builder, watcherVars, last, impact, world, rx, log, cl, rd, committed, done, failed>>

\* variant: the payload describes the graph before any write
delta_update_stale(G, file_path) == GraphUpdate(ArborGraph_new, TRUE, <<file_path>>)

\* the GraphUpdate built under the write guard after the loops
delta_update(G, file_path) == GraphUpdate(G, TRUE, <<file_path>>)

\* broadcast_tx.send(update): never blocks
IndexerBroadcast ==
    /\ ix.pc = "broadcast"
    /\ log' = Append(log, [ msg    |-> delta_update(graph, ix.result.file_path),
                            commit |-> Commits(log) + 1 ])
    /\ ix' = [ix EXCEPT !.pc = "release"]
    /\ UNCHANGED <<store, centrality, conn, search, builder, watcherVars, graphVars, impact, world, rx, lock, cl, rd, committed, done, failed>>

\* end of the match arm: the write guard is dropped
IndexerRelease ==
    /\ ix.pc = "release"
    /\ lock' = [lock EXCEPT !.writer = FALSE]
    /\ committed' = graph
    /\ done' = [ outcome  |-> IF ix.event.kind = "Changed" THEN "indexed" ELSE "deleted",
                 event    |-> ix.event,
                 symbols  |-> ix.result.symbols,
                 messages |-> SubSeq(log, ix.log_start + 1, Len(log)) ]
    /\ failed' = failed \ {ix.event.path}
    /\ ix' = IndexerIdle
    /\ UNCHANGED <<store, centrality, conn, search, builder, watcherVars, graphVars, impact, world, rx, log, cl, rd>>

Indexer ==
    \/ \E path \in world.files : \E result \in Contents(path) : IndexerParseOk(result)
    \/ IndexerParseErr
    \/ IndexerDeleted
    \/ IndexerAcquireWrite
    \/ IndexerRemoveFile
    \/ IndexerAddNodes
    \/ IndexerAddEdges
    \/ IndexerBroadcast
    \/ IndexerRelease

\* a Query RPC handler: graph.read().await, answer, drop the guard
QueryBegin(q) ==
    /\ rd[q] = "idle"
    /\ read_available(lock, ix)
    /\ lock' = [lock EXCEPT !.readers = @ \cup {q}]
    /\ rd' = [rd EXCEPT ![q] = "reading"]
    /\ UNCHANGED <<store, centrality, conn, search, builder, watcherVars, graphVars, impact, world, rx, ix, log, cl, committed, done, failed>>

QueryEnd(q) ==
    /\ rd[q] = "reading"
    /\ lock' = [lock EXCEPT !.readers = @ \ {q}]
    /\ rd' = [rd EXCEPT ![q] = "idle"]
    /\ UNCHANGED <<store, centrality, conn, search, builder, watcherVars, graphVars, impact, world, rx, ix, log, cl, committed, done, failed>>

\* run_websocket_server: accept, subscribe to the channel, spawn handle_client
ClientAccept(c) ==
    /\ c \in world.clients
    /\ cl[c].pc = "none"
    /\ cl' = [cl EXCEPT ![c] = [pc |-> "handshake", cursor |-> Len(log) + 1,
                                out |-> <<>>, sent |-> <<>>,
                                start |-> Len(log) + 1, lagged |-> <<>>,
                                recv |-> NoRecv]]
    /\ UNCHANGED <<store, centrality, conn, search, builder, watcherVars, graphVars, impact, world, rx, ix, lock, log, rd, committed, done, failed>>

\* handle_client: graph.read().await and the snapshot built under the guard
ClientSnapshot(c) ==
    /\ cl[c].pc = "handshake"
    /\ read_available(lock, ix)
    /\ lock' = [lock EXCEPT !.readers = @ \cup {c}]
    /\ cl' = [cl EXCEPT ![c].pc = "sending_snapshot",
                        ![c].out = <<[ msg    |-> GraphUpdate(graph, FALSE, <<>>),
                                       commit |-> Commits(log) ]>>]
    /\ UNCHANGED <<store, centrality, conn, search, builder, watcherVars, graphVars, impact, world, rx, ix, log, rd, committed, done, failed>>

\* write.send(snapshot).await completes; the read guard is dropped after it
ClientSnapshotSent(c) ==
    /\ cl[c].pc = "sending_snapshot"
    /\ lock' = [lock EXCEPT !.readers = @ \ {c}]
    /\ cl' = [cl EXCEPT ![c].pc = "loop", ![c].sent = cl[c].out, ![c].out = <<>>]
    /\ UNCHANGED <<store, centrality, conn, search, builder, watcherVars, graphVars, impact, world, rx, ix, log, rd, committed, done, failed>>

\* variant: updates are forwarded from the moment the socket is accepted
forwarding_early(c) == cl[c].pc \in {"handshake", "loop"}

\* the select loop is entered only after the snapshot was written
forwarding(c) == cl[c].pc = "loop"

\* position of the oldest message the channel still holds
oldest_retained(tail) ==
    IF tail > BroadcastCapacity THEN tail - BroadcastCapacity + 1 ELSE 1

\* variant: a receiver that fell behind resumes silently at the oldest message
lagging_never(cursor, tail) == FALSE

\* the receiver's next message has been overwritten
lagging(cursor, tail) == cursor < oldest_retained(tail)

\* broadcast_rx.recv() and write.send: a receiver more than the capacity
\* behind gets Lagged and resumes at the oldest retained message
ClientForward(c) ==
    /\ forwarding(c)
    /\ cl[c].cursor <= Len(log)
    /\ cl' = IF lagging(cl[c].cursor, Len(log))
             THEN [cl EXCEPT ![c].cursor = oldest_retained(Len(log)),
                             ![c].lagged = Append(@,
                                 [ after |-> Len(cl[c].sent),
                                   n     |-> oldest_retained(Len(log)) - cl[c].cursor ]),
                             ![c].recv = [kind |-> "Lagged",
                                          overwritten |-> cl[c].cursor + BroadcastCapacity <= Len(log)]]
             ELSE [cl EXCEPT ![c].cursor = @ + 1,
                             ![c].sent = Append(@, log[cl[c].cursor]),
                             ![c].recv = [kind |-> "Ok",
                                          overwritten |-> cl[c].cursor + BroadcastCapacity <= Len(log)]]
    /\ UNCHANGED <<store, centrality, conn, search, builder, watcherVars, graphVars, impact, world, rx, ix, lock, log, rd, committed, done, failed>>

\* handshake or send error, Close frame or end of stream: the task ends
ClientClose(c) ==
    /\ cl[c].pc \in {"handshake", "sending_snapshot", "loop"}
    /\ lock' = [lock EXCEPT !.readers = @ \ {c}]
    /\ cl' = [cl EXCEPT ![c].pc = "closed", ![c].out = <<>>]
    /\ UNCHANGED <<store, centrality, conn, search, builder, watcherVars, graphVars, impact, world, rx, ix, log, rd, committed, done, failed>>

-----------------------------------------------------------------------------
(* Graph operations as a state machine: any sequence of add_node (distinct *)
(* ids), add_edge between live handles, and remove_file.                   *)

LiveIds(G) == { G.nodes[i].id : i \in 1..Len(G.nodes) }

NoOp == [op |-> "none", file |-> "", pre |-> ArborGraph_new]

NoImpact == [called |-> FALSE, op |-> "none"]

InitGraph ==
    /\ graph = ArborGraph_new
    /\ last = NoOp
    /\ impact = NoImpact
    /\ ServerIdle([files |-> {}, events |-> 0, clients |-> {}, queries |-> {}])

AddNode(node) ==
    /\ Len(graph.nodes) < MaxNodes
    /\ node.id \notin LiveIds(graph)
    /\ graph' = add_node(graph, node)
    /\ last' = [op |-> "add_node", file |-> node.file, pre |-> graph]
    /\ UNCHANGED <<store, centrality, conn, search, builder, watcherVars, impact, serverVars>>

AddEdge(from, to, kind) ==
    /\ Len(graph.edges) < MaxEdges
    /\ graph' = add_edge(graph, from, to, kind)
    /\ last' = [op |-> "add_edge", file |-> "", pre |-> graph]
    /\ UNCHANGED <<store, centrality, conn, search, builder, watcherVars, impact, serverVars>>

RemoveFile(file) ==
    /\ graph' = remove_file(graph, file)
    /\ last' = [op |-> "remove_file", file |-> file, pre |-> graph]
    /\ UNCHANGED <<store, centrality, conn, search, builder, watcherVars, impact, serverVars>>

NextGraph ==
    \/ \E node \in Symbols : AddNode(node)
    \/ \E from \in 1..Len(graph.nodes), to \in 1..Len(graph.nodes), kind \in EdgeKinds :
          AddEdge(from, to, kind)
    \/ \E file \in Files : RemoveFile(file)

SpecGraph == InitGraph /\ [][NextGraph]_vars

\* add_node called with any node, whether or not its id is already present
AddNodeAny(node) ==
    /\ Len(graph.nodes) < MaxAnyIdNodes
    /\ graph' = add_node(graph, node)
    /\ last' = [op |-> "add_node", file |-> node.file, pre |-> graph]
    /\ UNCHANGED <<store, centrality, conn, search, builder, watcherVars, impact, serverVars>>

NextGraphAnyId ==
    \/ \E node \in Symbols : AddNodeAny(node)
    \/ \E from \in 1..Len(graph.nodes), to \in 1..Len(graph.nodes), kind \in EdgeKinds :
          AddEdge(from, to, kind)
    \/ \E file \in Files : RemoveFile(file)

SpecGraphAnyId == InitGraph /\ [][NextGraphAnyId]_vars

-----------------------------------------------------------------------------
(* analyze_impact applied to every small graph over four nodes *)

\* make_node(name): id = name, all in test.rs
ImpactNodes ==
    << CodeNode("a", "a", "test.rs"), CodeNode("b", "b", "test.rs"),
       CodeNode("c", "c", "test.rs"), CodeNode("d", "d", "test.rs") >>

RECURSIVE add_nodes(_, _)
add_nodes(G, nodes) ==
    IF nodes = <<>> THEN G ELSE add_nodes(add_node(G, Head(nodes)), Tail(nodes))

InitImpact ==
    /\ graph = add_nodes(ArborGraph_new, ImpactNodes)
    /\ last = NoOp
    /\ impact = NoImpact
    /\ ServerIdle([files |-> {}, events |-> 0, clients |-> {}, queries |-> {}])

\* the graph is built first; one query is then run on it
ImpactAddEdge(from, to, kind) ==
    /\ impact = NoImpact
    /\ Len(graph.edges) < MaxImpactEdges
    /\ graph' = add_edge(graph, from, to, kind)
    /\ impact' = NoImpact
    /\ UNCHANGED <<store, centrality, conn, search, builder, watcherVars, last, serverVars>>

AnalyzeImpact(target, max_depth) ==
    /\ impact = NoImpact
    /\ impact' = [ called |-> TRUE, op |-> "analyze_impact",
                   arg_target |-> target, arg_depth |-> max_depth,
                   result |-> analyze_impact(graph, target, max_depth) ]
    /\ UNCHANGED <<store, centrality, conn, search, builder, watcherVars, graphVars, serverVars>>

GetDependents(index, max_depth) ==
    /\ impact = NoImpact
    /\ impact' = [ called |-> FALSE, op |-> "get_dependents",
                   arg_target |-> index, arg_depth |-> max_depth,
                   result |-> get_dependents(graph, index, max_depth) ]
    /\ UNCHANGED <<store, centrality, conn, search, builder, watcherVars, graphVars, serverVars>>

HandleImpact(node, depth) ==
    /\ impact = NoImpact
    /\ impact' = [ called |-> FALSE, op |-> "impact",
                   arg_node |-> node, arg_depth |-> depth,
                   result |-> handle_impact(graph, node, depth) ]
    /\ UNCHANGED <<store, centrality, conn, search, builder, watcherVars, graphVars, serverVars>>

SeverityFromHops(hops) ==
    /\ impact = NoImpact
    /\ impact' = [ called |-> FALSE, op |-> "from_hops",
                   arg_hops |-> hops, result |-> from_hops(hops) ]
    /\ UNCHANGED <<store, centrality, conn, search, builder, watcherVars, graphVars, serverVars>>

\* the depths the queries are called with: the small ones and the 10 of
\* test_cycle_no_infinite_loop
ImpactDepths == (0..MaxDepth) \cup {10}

NextImpact ==
    \/ \E from \in 1..Len(graph.nodes), to \in 1..Len(graph.nodes) :
          ImpactAddEdge(from, to, "Calls")
    \/ \E target \in 1..Len(graph.nodes), max_depth \in ImpactDepths :
          AnalyzeImpact(target, max_depth)
    \/ \E index \in 1..Len(graph.nodes), max_depth \in ImpactDepths :
          GetDependents(index, max_depth)
    \/ \E node \in LiveIds(graph) \cup {"zz"}, depth \in ImpactDepths :
          HandleImpact(node, depth)
    \/ \E hops \in 0..MaxHops : SeverityFromHops(hops)

SpecImpact == InitImpact /\ [][NextImpact]_vars

\* the same with edges of several kinds
ImpactAddKindEdge(from, to, kind) ==
    /\ impact = NoImpact
    /\ Len(graph.edges) < MaxKindEdges
    /\ graph' = add_edge(graph, from, to, kind)
    /\ impact' = NoImpact
    /\ UNCHANGED <<store, centrality, conn, search, builder, watcherVars, last, serverVars>>

GetCallers(index) ==
    /\ impact = NoImpact
    /\ impact' = [ called |-> FALSE, op |-> "get_callers", arg_target |-> index,
                   result |-> get_callers(graph, index) ]
    /\ UNCHANGED <<store, centrality, conn, search, builder, watcherVars, graphVars, serverVars>>

GetCallees(index) ==
    /\ impact = NoImpact
    /\ impact' = [ called |-> FALSE, op |-> "get_callees", arg_target |-> index,
                   result |-> get_callees(graph, index) ]
    /\ UNCHANGED <<store, centrality, conn, search, builder, watcherVars, graphVars, serverVars>>

NextImpactKinds ==
    \/ \E from \in 1..Len(graph.nodes), to \in 1..Len(graph.nodes), kind \in EdgeKinds :
          ImpactAddKindEdge(from, to, kind)
    \/ \E target \in 1..Len(graph.nodes), max_depth \in ImpactDepths :
          AnalyzeImpact(target, max_depth)
    \/ \E index \in 1..Len(graph.nodes) : GetCallers(index)
    \/ \E index \in 1..Len(graph.nodes) : GetCallees(index)

SpecImpactKinds == InitImpact /\ [][NextImpactKinds]_vars

-----------------------------------------------------------------------------
(* Re-indexing under concurrent Query RPC readers *)

InitReindex ==
    /\ graph = ArborGraph_new
    /\ last = NoOp
    /\ impact = NoImpact
    /\ ServerIdle([files |-> {"f.rs", "g.rs", "h.rs"}, events |-> MaxReindexEvents,
                   clients |-> {}, queries |-> Queries])

NextReindex ==
    \/ \E kind \in {"Changed", "Deleted"}, path \in world.files : Promote(kind, path)
    \/ Indexer
    \/ \E q \in world.queries : QueryBegin(q)
    \/ \E q \in world.queries : QueryEnd(q)

SpecReindex == InitReindex /\ [][NextReindex]_vars

-----------------------------------------------------------------------------
(* Broadcast connections under concurrent re-indexing *)

InitBroadcast ==
    /\ graph = ArborGraph_new
    /\ last = NoOp
    /\ impact = NoImpact
    /\ ServerIdle([files |-> {"f.rs"}, events |-> MaxBroadcastEvents,
                   clients |-> Clients, queries |-> {}])

NextBroadcast ==
    \/ \E kind \in {"Changed", "Deleted"}, path \in world.files : Promote(kind, path)
    \/ Indexer
    \/ \E c \in Clients : ClientAccept(c)
    \/ \E c \in Clients : ClientSnapshot(c)
    \/ \E c \in Clients : ClientSnapshotSent(c)
    \/ \E c \in Clients : ClientForward(c)
    \/ \E c \in Clients : ClientClose(c)

SpecBroadcast == InitBroadcast /\ [][NextBroadcast]_vars

-----------------------------------------------------------------------------
(* File watcher with debouncing: run_file_watcher *)

\* variant: a path is ready one wake tick after its last raw event
is_ready_after_tick(t, time) == t - time >= wake_ms

\* now.duration_since(*time) >= debounce_dur
is_ready(t, time) == t - time >= debounce_ms

ReadyPaths(p, t) == { path \in DOMAIN p : is_ready(t, p[path]) }

\* the event sent for a ready path
promoted_event(path, exists) ==
    IF exists THEN WatcherEvent("Changed", path) ELSE WatcherEvent("Deleted", path)

\* tx.send for every ready path, in some iteration order of the HashMap
RECURSIVE send_ready(_, _)
send_ready(queue, ready) ==
    IF ready = {} THEN {queue}
    ELSE UNION { send_ready(Append(queue, promoted_event(path, fs[path])), ready \ {path})
                 : path \in ready }

\* history of pending.insert(path, now): a raw event that comes debounce_ms
\* or more after the previous one for the path starts a new burst
Recorded(h, path) ==
    LET fresh == h.raw_last[path] < 0 \/ now - h.raw_last[path] >= debounce_ms
    IN  [h EXCEPT !.raw_last[path] = now,
                  !.burst[path] = IF fresh THEN @ + 1 ELSE @,
                  !.size[path] = IF fresh THEN 1 ELSE @ + 1]

\* the head of the loop body, run with the debounce map p at time now
PromoteReady(p, h) ==
    LET ready == ReadyPaths(p, now)
    IN  /\ pending' = [path \in (DOMAIN p) \ ready |-> p[path]]
        /\ rx' \in send_ready(rx, { path \in ready : should_process_file(path) })
        /\ hist' = [h EXCEPT !.promos = @ \cup
                      { [ path |-> path, at |-> now, recorded |-> p[path],
                          burst |-> h.burst[path], events |-> h.size[path],
                          existed |-> fs[path] ]
                        : path \in { q \in ready : should_process_file(q) } }]
        /\ deadline' = now + wake_ms

\* the OS reports a change of path; the file is written, created or removed
RawEvent(path, exists) ==
    /\ hist.raws < MaxRawEvents
    /\ notify_rx' = Append(notify_rx, path)
    /\ fs' = [fs EXCEPT ![path] = exists]
    /\ hist' = [hist EXCEPT !.raws = @ + 1]
    /\ UNCHANGED <<store, centrality, conn, search, builder, graphVars, impact, serverVars, now, pending, deadline>>

\* recv() returns an event: record it, then run the next iteration's head
WatcherRecv ==
    LET path == Head(notify_rx)
    IN  /\ notify_rx # <<>>
        /\ notify_rx' = Tail(notify_rx)
        /\ IF should_process_file(path)
           THEN PromoteReady(MapInsert(pending, path, now), Recorded(hist, path))
           ELSE PromoteReady(pending, hist)
        /\ UNCHANGED <<store, centrality, conn, search, builder, graphVars, impact, world, ix, lock, log, cl, rd, committed, done,
                       failed, now, fs>>

\* the timeout expires: run the next iteration's head
WatcherTimeout ==
    /\ notify_rx = <<>>
    /\ now >= deadline
    /\ PromoteReady(pending, hist)
    /\ UNCHANGED <<store, centrality, conn, search, builder, graphVars, impact, world, ix, lock, log, cl, rd, committed, done,
                   failed, now, notify_rx, fs>>

\* time passes while the loop is parked in recv() with nothing to receive
Tick ==
    /\ notify_rx = <<>>
    /\ now < deadline
    /\ now < MaxTime
    /\ now' = now + TimeStep
    /\ UNCHANGED <<store, centrality, conn, search, builder, graphVars, impact, serverVars, notify_rx, pending, deadline, fs, hist>>

InitWatcher ==
    /\ graph = ArborGraph_new
    /\ last = NoOp
    /\ impact = NoImpact
    /\ ServerIdle([files |-> Paths, events |-> 0, clients |-> {}, queries |-> {}])

NextWatcher ==
    \/ \E path \in Paths, exists \in BOOLEAN : RawEvent(path, exists)
    \/ WatcherRecv
    \/ WatcherTimeout
    \/ Tick

SpecWatcher == InitWatcher /\ [][NextWatcher]_vars

-----------------------------------------------------------------------------
(* Shutdown of the pipeline: the raw event channel closes while the
   debouncer and the re-indexer are running *)

\* the notify sender is dropped: notify_rx is closed once it is drained
RawClose ==
    /\ ~world.raw_closed
    /\ world' = [world EXCEPT !.raw_closed = TRUE,
                              !.owed = (DOMAIN pending)
                                       \cup { rx[i].path : i \in 1..Len(rx) },
                              !.closed_at = Len(log)]
    /\ UNCHANGED <<store, centrality, conn, search, builder, graphVars, impact, watcherVars, rx, ix, lock, log, cl, rd, committed, done, failed>>

\* recv() returns None: break; pending and tx are dropped with the task
WatcherClosed ==
    /\ world.watcher = "running"
    /\ world.raw_closed
    /\ notify_rx = <<>>
    /\ world' = [world EXCEPT !.watcher = "stopped"]
    /\ pending' = EmptyMap
    /\ UNCHANGED <<store, centrality, conn, search, builder, graphVars, impact, rx, ix, lock, log, cl, rd, committed, done, failed, now, notify_rx, deadline, fs, hist>>

\* rx.recv() returns None: every sender is gone and the queue is empty
IndexerStop ==
    /\ ix.pc = "recv"
    /\ rx = <<>>
    /\ world.watcher = "stopped"
    /\ ix' = [pc |-> "stopped"]
    /\ UNCHANGED <<store, centrality, conn, search, builder, graphVars, impact, watcherVars, world, rx, lock, log, cl, rd, committed, done, failed>>

InitDrain ==
    /\ graph = ArborGraph_new
    /\ last = NoOp
    /\ impact = NoImpact
    /\ ServerIdle([files |-> {"f.rs", "g.rs"}, events |-> 0, clients |-> {}, queries |-> {},
                   raw_closed |-> FALSE, watcher |-> "running", owed |-> {},
                   closed_at |-> 0])

NextDrain ==
    \/ /\ ~world.raw_closed
       /\ hist.raws < MaxDrainEvents
       /\ \E path \in {"f.rs", "g.rs"}, exists \in BOOLEAN : RawEvent(path, exists)
    \/ RawClose
    \/ world.watcher = "running" /\ WatcherRecv
    \/ world.watcher = "running" /\ ~world.raw_closed /\ WatcherTimeout
    \/ ~world.raw_closed /\ Tick
    \/ WatcherClosed
    \/ Indexer
    \/ IndexerStop

SpecDrain == InitDrain /\ [][NextDrain]_vars

-----------------------------------------------------------------------------
(* The running pipeline: notify callback, debouncer and re-indexer, with
   every task scheduled again and again and the clock advancing *)

\* a raw event early enough for the clock to pass its debounce window
PipelineRawEvent(path, exists) ==
    /\ hist.raws < MaxPipelineEvents
    /\ now + debounce_ms + wake_ms <= MaxTime
    /\ RawEvent(path, exists)

InitPipeline ==
    /\ graph = ArborGraph_new
    /\ last = NoOp
    /\ impact = NoImpact
    /\ ServerIdle([files |-> Paths, events |-> 0, clients |-> {}, queries |-> {}])

NextPipeline ==
    \/ \E path \in {"f.rs", "notes.md"}, exists \in BOOLEAN :
          PipelineRawEvent(path, exists)
    \/ WatcherRecv
    \/ WatcherTimeout
    \/ Tick
    \/ Indexer

\* tokio runs every spawned task that is ready; time passes
SpecPipeline ==
    /\ InitPipeline /\ [][NextPipeline]_vars
    /\ WF_vars(WatcherRecv) /\ WF_vars(WatcherTimeout) /\ WF_vars(Tick)
    /\ WF_vars(Indexer)

-----------------------------------------------------------------------------
(* GraphBuilder as a state machine: add_nodes one node at a time, then build *)

BuilderAddNodes(node) ==
    /\ ~builder.built
    /\ Len(builder.graph.nodes) < MaxBuilderNodes
    /\ node.id = BuilderIds[Len(builder.graph.nodes) + 1]
    /\ builder' = builder_add_node(builder, node)
    /\ UNCHANGED <<store, centrality, conn, search, graphVars, impact, serverVars, watcherVars>>

BuilderBuild ==
    /\ ~builder.built
    /\ builder' = [ resolve_edges(builder) EXCEPT
                      !.built = TRUE, !.before = builder.graph.edges ]
    /\ UNCHANGED <<store, centrality, conn, search, graphVars, impact, serverVars, watcherVars>>

InitBuilder ==
    /\ graph = ArborGraph_new
    /\ last = NoOp
    /\ impact = NoImpact
    /\ ServerIdle([files |-> {}, events |-> 0, clients |-> {}, queries |-> {}])

NextBuilder ==
    \/ \E id \in SeqToSet(BuilderIds), name \in BuilderNames,
          qualified_name \in QualifiedNames,
          references \in SeqsUpTo(ReferenceNames, MaxReferences) :
            BuilderAddNodes(BuilderNode(id, name, qualified_name, references))
    \/ BuilderBuild

SpecBuilder == InitBuilder /\ [][NextBuilder]_vars

-----------------------------------------------------------------------------
(* GraphBuilder driven as the add_nodes documentation says: add_nodes for
   each file, resolve_edges, then build *)

\* builder.resolve_edges() called by the user of the builder
BuilderResolveEdges ==
    /\ ~builder.built
    /\ builder.graph.nodes # <<>>
    /\ builder.before = <<>>
    /\ builder.graph.edges = <<>>
    /\ builder' = resolve_edges(builder)
    /\ UNCHANGED <<store, centrality, conn, search, graphVars, impact, serverVars, watcherVars>>

NextResolve ==
    \/ \E id \in SeqToSet(BuilderIds), name \in BuilderNames,
          qualified_name \in QualifiedNames,
          references \in SeqsUpTo(ReferenceNames, MaxReferences) :
            BuilderAddNodes(BuilderNode(id, name, qualified_name, references))
    \/ BuilderResolveEdges
    \/ BuilderBuild

SpecResolve == InitBuilder /\ [][NextResolve]_vars

-----------------------------------------------------------------------------
(* A subscriber that stops draining its receiver while deltas are broadcast:
   one connection that has got its snapshot of the empty graph, and a file
   that is reported deleted again and again *)

Subscriber == CHOOSE c \in Clients : TRUE

Subscribed ==
    [ c \in Clients |->
        IF c = Subscriber
        THEN [ pc |-> "loop", cursor |-> 1, out |-> <<>>,
               sent |-> <<[ msg    |-> GraphUpdate(ArborGraph_new, FALSE, <<>>),
                            commit |-> 0 ]>>,
               start |-> 1, lagged |-> <<>>, recv |-> NoRecv ]
        ELSE NoClient ]

InitLag ==
    /\ graph = ArborGraph_new
    /\ last = NoOp
    /\ impact = NoImpact
    /\ ServerWith([files |-> {"f.rs"}, events |-> MaxLagEvents,
                   clients |-> {Subscriber}, queries |-> {}], Subscribed)

NextLag ==
    \/ Promote("Deleted", "f.rs")
    \/ IndexerDeleted
    \/ IndexerAcquireWrite
    \/ IndexerRemoveFile
    \/ IndexerBroadcast
    \/ IndexerRelease
    \/ ClientForward(Subscriber)

SpecLag == InitLag /\ [][NextLag]_vars

-----------------------------------------------------------------------------
(* A subscriber that stops draining its receiver while a file is indexed
   and the bridge then spotlights a node again and again *)

\* SyncServer::focus_node / SyncServerHandle::spotlight_node once the
\* re-indexer has nothing left to do: broadcast_tx.send never blocks
FocusBroadcast(node) ==
    /\ world.events = 0
    /\ rx = <<>>
    /\ ix.pc = "recv"
    /\ Len(log) < MaxFocusMessages + 1
    /\ log' = Append(log, [msg |-> FocusNode(node), commit |-> Commits(log)])
    /\ UNCHANGED <<store, centrality, conn, search, builder, watcherVars, graphVars, impact, world, rx, ix, lock, cl, rd, committed, done, failed>>

InitFocusLag ==
    /\ graph = ArborGraph_new
    /\ last = NoOp
    /\ impact = NoImpact
    /\ ServerWith([files |-> {"f.rs"}, events |-> 1,
                   clients |-> {Subscriber}, queries |-> {}], Subscribed)

NextFocusLag ==
    \/ Promote("Changed", "f.rs")
    \/ \E result \in Contents("f.rs") : IndexerParseOk(result)
    \/ IndexerAcquireWrite
    \/ IndexerRemoveFile
    \/ IndexerAddNodes
    \/ IndexerAddEdges
    \/ IndexerBroadcast
    \/ IndexerRelease
    \/ graph.nodes # <<>> /\ FocusBroadcast(graph.nodes[1])
    \/ ClientForward(Subscriber)

SpecFocusLag == InitFocusLag /\ [][NextFocusLag]_vars

-----------------------------------------------------------------------------
(* A Query RPC connection served over a graph that was indexed, scored and
   re-indexed before the frames arrive *)

RequestIds == {"7", Null}

NodeIdsAsked == {"f.rs:foo", "f.rs:bar"}

TextFrames ==
    {NotARequest}
    \cup { Request(id, method, BadParams) :
             id \in RequestIds,
             method \in {"graph.info", "discover", "impact", "node.get", "graph.drop"} }
    \cup { Request(id, "impact", ImpactParams(node, 1)) :
             id \in RequestIds, node \in NodeIdsAsked }
    \cup { Request(id, "node.get", NodeGetParams(node)) :
             id \in RequestIds, node \in NodeIdsAsked }
    \cup { Request(id, "discover", DiscoverParams(query, limit)) :
             id \in RequestIds, query \in {"o", "FO"}, limit \in {0, 1} }

RpcAddNode(node) ==
    /\ conn = ConnectionOpen
    /\ Len(graph.nodes) < MaxRpcNodes
    /\ node.id \notin LiveIds(graph)
    /\ graph' = add_node(graph, node)
    /\ UNCHANGED <<store, centrality, conn, search, builder, watcherVars, last, impact, serverVars>>

RpcRemoveFile(file) ==
    /\ conn = ConnectionOpen
    /\ graph' = remove_file(graph, file)
    /\ UNCHANGED <<store, centrality, conn, search, builder, watcherVars, last, impact, serverVars>>

\* set_centrality with the scores compute_centrality gives the nodes
SetCentrality(scores) ==
    /\ conn = ConnectionOpen
    /\ centrality = EmptyMap
    /\ centrality' = scores
    /\ UNCHANGED <<store, conn, search, builder, watcherVars, graphVars, impact, serverVars>>

\* variant: the handler of a text frame resets the centrality scores
ConnText_scoring(text) ==
    /\ conn.pc = "open"
    /\ conn.served < MaxRpcFrames
    /\ conn' = [pc |-> "open", served |-> conn.served + 1, frame |-> text,
                replies |-> <<process_message(graph, EmptyMap, text)>>,
                read |-> [graph |-> graph, centrality |-> EmptyMap]]
    /\ centrality' = EmptyMap
    /\ UNCHANGED <<store, search, builder, watcherVars, graphVars, impact, serverVars>>

\* handle_connection: a text frame; a panic in the handler ends the task
ConnText(text) ==
    /\ conn.pc = "open"
    /\ conn.served < MaxRpcFrames
    /\ LET response == process_message(graph, centrality, text)
       IN  conn' = IF "panicked" \in DOMAIN response
                   THEN [pc |-> "panicked", served |-> conn.served + 1,
                         frame |-> text, replies |-> <<>>,
                         read |-> [graph |-> graph, centrality |-> centrality]]
                   ELSE [pc |-> "open", served |-> conn.served + 1,
                         frame |-> text, replies |-> <<response>>,
                         read |-> [graph |-> graph, centrality |-> centrality]]
    /\ UNCHANGED <<store, centrality, search, builder, watcherVars, graphVars, impact, serverVars>>

\* handle_connection: a ping frame is answered with a pong
ConnPing ==
    /\ conn.pc = "open"
    /\ conn.served < MaxRpcFrames
    /\ conn' = [pc |-> "open", served |-> conn.served + 1,
                frame |-> [kind |-> "ping"], replies |-> <<[kind |-> "pong"]>>,
                read |-> NothingRead]
    /\ UNCHANGED <<store, centrality, search, builder, watcherVars, graphVars, impact, serverVars>>

\* handle_connection: a close frame or a read error ends the loop
ConnClose ==
    /\ conn.pc = "open"
    /\ conn' = [pc |-> "closed", served |-> conn.served,
                frame |-> [kind |-> "close"], replies |-> <<>>,
                read |-> NothingRead]
    /\ UNCHANGED <<store, centrality, search, builder, watcherVars, graphVars, impact, serverVars>>

NextRpc ==
    \/ \E node \in Symbols : RpcAddNode(node)
    \/ \E file \in Files : RpcRemoveFile(file)
    \/ \E scores \in [1..Len(graph.nodes) -> 0..MaxScore] : SetCentrality(scores)
    \/ \E text \in TextFrames : ConnText(text)
    \/ ConnPing
    \/ ConnClose

SpecRpc == InitGraph /\ [][NextRpc]_vars

-----------------------------------------------------------------------------
(* A GraphStore beside a graph that is built, saved, changed and loaded *)

\* the graph is built before the first save
StoreAddNode(node) ==
    /\ store.saves = 0
    /\ Len(graph.nodes) < MaxStoreNodes
    /\ node.id \notin LiveIds(graph)
    /\ graph' = add_node(graph, node)
    /\ UNCHANGED <<store, centrality, conn, search, builder, watcherVars, last, impact, serverVars>>

StoreAddEdge(from, to, kind) ==
    /\ store.saves = 0
    /\ Len(graph.edges) < MaxStoreEdges
    /\ graph' = add_edge(graph, from, to, kind)
    /\ UNCHANGED <<store, centrality, conn, search, builder, watcherVars, last, impact, serverVars>>

StoreRemoveFile(file) ==
    /\ store.saves = 0
    /\ graph' = remove_file(graph, file)
    /\ UNCHANGED <<store, centrality, conn, search, builder, watcherVars, last, impact, serverVars>>

StoreSave(reversed) ==
    /\ store.saves < MaxSaves
    /\ store' = [ db     |-> save_graph(store.db, graph, centrality, reversed),
                  saves  |-> store.saves + 1,
                  saved  |-> <<[graph |-> graph, centrality |-> centrality]>>,
                  loaded |-> [kind |-> "unset"] ]
    /\ UNCHANGED <<centrality, conn, search, builder, watcherVars, graphVars, impact, serverVars>>

StoreLoad ==
    /\ store.loaded.kind = "unset"
    /\ store' = [store EXCEPT !.loaded = load_graph(store.db)]
    /\ UNCHANGED <<centrality, conn, search, builder, watcherVars, graphVars, impact, serverVars>>

StoreClear ==
    /\ store.db # <<>>
    /\ store' = [store EXCEPT !.db = store_clear(store.db), !.saved = <<>>,
                              !.loaded = [kind |-> "unset"]]
    /\ UNCHANGED <<centrality, conn, search, builder, watcherVars, graphVars, impact, serverVars>>

NextStore ==
    \/ \E node \in Symbols : StoreAddNode(node)
    \/ \E from \in 1..Len(graph.nodes), to \in 1..Len(graph.nodes), kind \in EdgeKinds :
          StoreAddEdge(from, to, kind)
    \/ \E file \in Files : StoreRemoveFile(file)
    \/ \E reversed \in BOOLEAN : StoreSave(reversed)
    \/ StoreLoad
    \/ StoreClear

SpecStore == InitGraph /\ [][NextStore]_vars

-----------------------------------------------------------------------------
(* The agent bridge with a spotlight handle beside the running re-indexer *)


ToolLines ==
    { Request("7", "tools/call", ToolCall(name, node)) :
        name \in {"get_logic_path", "analyze_impact"},
        node \in {"foo", "f.rs:foo", "run"} }

\* call_tool, first half: trigger_spotlight under its own read guard
BridgeSpotlight(line) ==
    /\ conn.pc = "open"
    /\ conn.served < MaxRpcFrames
    /\ read_available(lock, ix)
    /\ LET focus == trigger_spotlight(graph, line.params.node)
       IN  /\ log' = log \o [ i \in 1..Len(focus) |->
                                [msg |-> focus[i], commit |-> Commits(log)] ]
           /\ conn' = [pc |-> "spotlit", served |-> conn.served, frame |-> line,
                       replies |-> <<>>,
                       read |-> [graph |-> graph, centrality |-> centrality,
                                 focus |-> focus, brief |-> graph]]
    /\ UNCHANGED <<store, centrality, search, builder, watcherVars, graphVars, impact, world, rx, ix, lock, cl, rd, committed, done, failed>>

\* call_tool, second half: generate_context under a second read guard, then
\* the response line
BridgeRespond ==
    /\ conn.pc = "spotlit"
    /\ read_available(lock, ix)
    /\ LET written == run_stdio_line(graph, centrality, conn.frame)
       IN  conn' = IF "panicked" \in DOMAIN written[1]
                   THEN [conn EXCEPT !.pc = "panicked", !.served = @ + 1,
                                     !.read.brief = graph]
                   ELSE [conn EXCEPT !.pc = "open", !.served = @ + 1,
                                     !.replies = written, !.read.brief = graph]
    /\ UNCHANGED <<store, centrality, search, builder, watcherVars, graphVars, impact, serverVars>>

InitSpotlight ==
    /\ graph = ArborGraph_new
    /\ last = NoOp
    /\ impact = NoImpact
    /\ ServerIdle([files |-> {"f.rs", "g.rs"}, events |-> MaxSpotlightEvents,
                   clients |-> {}, queries |-> {}])

NextSpotlight ==
    \/ \E kind \in {"Changed", "Deleted"}, path \in world.files : Promote(kind, path)
    \/ Indexer
    \/ \E line \in ToolLines : BridgeSpotlight(line)
    \/ BridgeRespond

SpecSpotlight == InitSpotlight /\ [][NextSpotlight]_vars

-----------------------------------------------------------------------------
(* The bridge deployment: initial index load, re-indexer, Query RPC, agent
   bridge and broadcast snapshots over one shared graph *)

\* the graphs index_directory can give for the watched files
InitialGraphs ==
    { index_symbols(ArborGraph_new, EmptyMap, result.symbols).G :
        result \in Contents("f.rs") }

\* bridge: before the servers are started, the initial index replaces the
\* empty shared graph under the write guard and the computed scores are set
InitialIndex(G, scores) ==
    /\ last = NoOp
    /\ write_available(lock)
    /\ ix.pc = "recv"
    /\ world.events = MaxSpotlightEvents
    /\ conn = ConnectionOpen
    /\ cl = [c \in Clients |-> NoClient]
    /\ graph' = G
    /\ centrality' = scores
    /\ last' = [op |-> "initial_index", file |-> "", pre |-> graph]
    /\ UNCHANGED <<store, conn, search, builder, watcherVars, impact, serverVars>>

ReaderFrames ==
    { Request("7", "graph.info", BadParams),
      Request("7", "discover", DiscoverParams("o", 1)),
      Request("7", "impact", ImpactParams("f.rs:foo", 1)),
      Request("7", "context", ContextParams("o", 10)),
      Request("7", "search", SearchParams("o", 1)),
      Request("7", "node.get", NodeGetParams("f.rs:foo")) }

ReaderLines == { Request("7", "tools/call", ToolCall("get_logic_path", "foo")) }

InitWriters ==
    /\ graph = ArborGraph_new
    /\ last = NoOp
    /\ impact = NoImpact
    /\ ServerIdle([files |-> {"f.rs"}, events |-> MaxSpotlightEvents,
                   clients |-> {Subscriber}, queries |-> {}])

NextWriters ==
    \/ \E G \in InitialGraphs : \E scores \in [1..Len(G.nodes) -> 0..MaxScore] :
          InitialIndex(G, scores)
    \/ \E kind \in {"Changed", "Deleted"}, path \in world.files : Promote(kind, path)
    \/ Indexer
    \/ read_available(lock, ix) /\ \E text \in ReaderFrames : ConnText(text)
    \/ \E line \in ReaderLines : BridgeSpotlight(line)
    \/ BridgeRespond
    \/ ClientAccept(Subscriber)
    \/ ClientSnapshot(Subscriber)
    \/ ClientSnapshotSent(Subscriber)

SpecWriters == InitWriters /\ [][NextWriters]_vars

-----------------------------------------------------------------------------
(* The context RPC over a ranked graph that is re-indexed *)

ContextFrames ==
    { Request("7", "context", ContextParams(task, maxTokens)) :
        task \in {"o", "b"}, maxTokens \in {0, 10, 25, 30} }
    \cup { Request("7", "search", SearchParams(query, limit)) :
             query \in {"o"}, limit \in {0, 1} }

NextContext ==
    \/ \E node \in Symbols : RpcAddNode(node)
    \/ \E file \in Files : RpcRemoveFile(file)
    \/ \E scores \in [1..Len(graph.nodes) -> 0..MaxScore] : SetCentrality(scores)
    \/ \E text \in ContextFrames : ConnText(text)

SpecContext == InitGraph /\ [][NextContext]_vars

-----------------------------------------------------------------------------
(* The agent bridge reading lines over a graph that was indexed and
   re-indexed before *)

ToolNodes == {"foo", "f.rs:bar"}

InputLines ==
    {BlankLine, NotARequest}
    \cup { Request(id, method, NoToolName) :
             id \in RequestIds,
             method \in {"initialize", "notifications/initialized", "tools/list",
                         "tools/call", "tools/drop"} }
    \cup { Request(id, "tools/call", ToolCall(name, node)) :
             id \in RequestIds,
             name \in {"get_logic_path", "analyze_impact", "drop_graph"},
             node \in ToolNodes }

\* run_stdio: one line of stdin; a panic ends the bridge
BridgeLine(line) ==
    /\ conn.pc = "open"
    /\ conn.served < MaxRpcFrames
    /\ LET written == run_stdio_line(graph, centrality, line)
       IN  conn' = IF written # <<>> /\ "panicked" \in DOMAIN written[1]
                   THEN [pc |-> "panicked", served |-> conn.served + 1,
                         frame |-> line, replies |-> <<>>,
                         read |-> [graph |-> graph, centrality |-> centrality]]
                   ELSE [pc |-> "open", served |-> conn.served + 1,
                         frame |-> line, replies |-> written,
                         read |-> [graph |-> graph, centrality |-> centrality]]
    /\ UNCHANGED <<store, centrality, search, builder, watcherVars, graphVars, impact, serverVars>>

NextBridge ==
    \/ \E node \in Symbols : RpcAddNode(node)
    \/ \E file \in Files : RpcRemoveFile(file)
    \/ \E line \in InputLines : BridgeLine(line)

SpecBridge == InitGraph /\ [][NextBridge]_vars

-----------------------------------------------------------------------------
(* ArborGraph::search over a graph that grows and shrinks *)

GraphQueries == {"f", "o", "fo", "oo", "bar", "zz"}

GraphSearch(query) ==
    /\ last' = [op |-> "search", file |-> "", pre |-> graph, query |-> query,
                result |-> search_nodes(graph, query)]
    /\ UNCHANGED <<store, centrality, conn, search, builder, watcherVars, graph, impact, serverVars>>

NextGraphSearch ==
    \/ \E node \in Symbols : AddNode(node)
    \/ \E file \in Files : RemoveFile(file)
    \/ \E query \in GraphQueries : GraphSearch(query)

SpecGraphSearch == InitGraph /\ [][NextGraphSearch]_vars

-----------------------------------------------------------------------------
(* SearchIndex as a state machine: insert, remove and search in any order *)

IndexNames == {"ab", "Abc", "abcdbcde"}

IndexHandles == {1, 2}

IndexQueries == {"a", "B", "ab", "AB", "bc", "abcde", "zz"}

SearchInsert(name, id) ==
    /\ search.inserts < MaxIndexInserts
    /\ search' = [ index   |-> search_index_insert(search.index, name, id),
                   pairs   |-> search.pairs \cup {<<name, id>>},
                   inserts |-> search.inserts + 1,
                   op      |-> "insert" ]
    /\ UNCHANGED <<store, centrality, conn, graphVars, impact, serverVars, watcherVars, builder>>

SearchRemove(name, id) ==
    /\ <<name, id>> \in search.pairs
    /\ search' = [ index   |-> search_index_remove(search.index, name, id),
                   pairs   |-> search.pairs \ {<<name, id>>},
                   inserts |-> search.inserts,
                   op      |-> "remove" ]
    /\ UNCHANGED <<store, centrality, conn, graphVars, impact, serverVars, watcherVars, builder>>

SearchQuery(query) ==
    /\ search.op # "search"
    /\ search' = [ search EXCEPT !.op = "search" ] @@
                 [ query |-> query, result |-> search_index_search(search.index, query) ]
    /\ UNCHANGED <<store, centrality, conn, graphVars, impact, serverVars, watcherVars, builder>>

InitSearch ==
    /\ graph = ArborGraph_new
    /\ last = NoOp
    /\ impact = NoImpact
    /\ ServerIdle([files |-> {}, events |-> 0, clients |-> {}, queries |-> {}])

NextSearch ==
    \/ \E name \in IndexNames, id \in IndexHandles : SearchInsert(name, id)
    \/ \E name \in IndexNames, id \in IndexHandles : SearchRemove(name, id)
    \/ \E query \in IndexQueries : SearchQuery(query)

SpecSearch == InitSearch /\ [][NextSearch]_vars

-----------------------------------------------------------------------------
(* Graph core properties *)

InFile(G, file) == { i \in 1..Len(G.nodes) : G.nodes[i].file = file }

\* exported edges of G none of whose endpoints lies in file
EdgesOutside(G, file) ==
    SelectSeq(export_edges(G),
              LAMBDA x : \A i \in InFile(G, file) :
                            x.source # G.nodes[i].id /\ x.target # G.nodes[i].id)

Occurrences(s, x) == Cardinality({ i \in 1..Len(s) : s[i] = x })

\* C1: after remove_file(f) no node with file f is left, no edge that was
\* incident to such a node is left, and node_count has dropped by exactly
\* the number of nodes that had file f.
C1_RemoveFileEvicts ==
    last.op = "remove_file" =>
        /\ InFile(graph, last.file) = {}
        /\ node_count(graph) =
              node_count(last.pre) - Cardinality(InFile(last.pre, last.file))
        /\ \A x \in SeqToSet(export_edges(graph)) :
              Occurrences(export_edges(graph), x)
                 <= Occurrences(EdgesOutside(last.pre, last.file), x)

\* every live node is found through the three indexes
NodesIndexed(G) ==
    \A i \in 1..Len(G.nodes) :
        LET n == G.nodes[i]
        IN  /\ get_by_id(G, n.id) = <<n>>
            /\ n \in SeqToSet(find_by_name(G, n.name))
            /\ n \in SeqToSet(find_by_file(G, n.file))

\* every stored handle designates a live node filed under the right key
HandlesLive(G) ==
    /\ \A id \in DOMAIN G.id_index :
          /\ G.id_index[id] \in 1..Len(G.nodes)
          /\ G.nodes[G.id_index[id]].id = id
    /\ \A name \in DOMAIN G.name_index :
          \A h \in SeqToSet(G.name_index[name]) :
              h \in 1..Len(G.nodes) /\ G.nodes[h].name = name
    /\ \A file \in DOMAIN G.file_index :
          \A h \in SeqToSet(G.file_index[file]) :
              h \in 1..Len(G.nodes) /\ G.nodes[h].file = file

\* C2: after any sequence of add_node (distinct ids), add_edge and
\* remove_file the id, name and file indexes agree with the node store in
\* both directions.
C2_IndexesCoherent == NodesIndexed(graph) /\ HandlesLive(graph)

-----------------------------------------------------------------------------
(* Blast-radius properties *)

Step(G, S, direction) ==
    S \cup { Neighbor(G.edges[i], direction) :
                i \in { j \in 1..Len(G.edges) :
                          IF direction = "Incoming" THEN G.edges[j].to \in S
                          ELSE G.edges[j].from \in S } }

\* nodes reachable from t by a path of at most k edges
RECURSIVE Within(_, _, _, _)
Within(G, t, direction, k) ==
    IF k = 0 THEN {t} ELSE Step(G, Within(G, t, direction, k - 1), direction)

\* length of a shortest path from t to n (n reachable)
ShortestLength(G, t, n, direction) ==
    CHOOSE k \in 0..Len(G.nodes) :
        /\ n \in Within(G, t, direction, k)
        /\ \A j \in 0..(k - 1) : n \notin Within(G, t, direction, j)

\* the set a list must cover: nodes other than t within the depth bound
BlastRadius(G, t, direction, d) ==
    Within(G, t, direction, IF d = 0 THEN Len(G.nodes) ELSE d) \ {t}

ExactList(G, t, direction, d, list) ==
    /\ { list[i].node_id : i \in 1..Len(list) } = BlastRadius(G, t, direction, d)
    /\ \A i, j \in 1..Len(list) : list[i].node_id = list[j].node_id => i = j
    /\ \A i \in 1..Len(list) :
          list[i].hop_distance = ShortestLength(G, t, list[i].node_id, direction)

\* C6: downstream (upstream) is exactly the set of nodes other than the
\* target within max_depth outgoing (incoming) hops, each once, with its
\* shortest hop distance; max_depth = 0 lifts the bound.
C6_ImpactIsBoundedBfs ==
    impact.called =>
        /\ ExactList(graph, impact.arg_target, "Outgoing", impact.arg_depth,
                     impact.result.downstream)
        /\ ExactList(graph, impact.arg_target, "Incoming", impact.arg_depth,
                     impact.result.upstream)

\* a chain cut by the depth bound: some node lies beyond max_depth and is left out
C6_Witness ==
    /\ impact.called
    /\ impact.arg_depth = 2
    /\ Len(impact.result.downstream) = 2
    /\ \E i \in 1..2 : impact.result.downstream[i].hop_distance = 2
    /\ Within(graph, impact.arg_target, "Outgoing", 3) \
          Within(graph, impact.arg_target, "Outgoing", 2) # {}

-----------------------------------------------------------------------------
(* Re-indexer properties *)

\* C3: no reader holding the read lock observes an intermediate graph: what
\* it reads is the graph as of a completed re-index.
C3_ReadersSeeCommitted ==
    lock.readers # {} => graph = committed

\* every symbol parse_file can emit for a path
SymbolsOf(path) ==
    UNION { SeqToSet(result.symbols) : result \in Contents(path) }

\* the re-indexer is between two events: the graph is the one the last
\* finished event left behind
Settled == ix.pc \in {"recv", "wait_write"}

\* C4: once a promoted Changed event on p whose parse gave S is processed,
\* the nodes with file p are exactly S, symbols no longer emitted are not
\* findable, and exactly one delta GraphUpdate with changed_files = [p] was
\* broadcast for it; a Deleted event leaves no node of p and one such delta.
C4_ReindexReplacesFile ==
    (Settled /\ done.outcome \in {"indexed", "deleted"}) =>
        LET p == done.event.path
        IN  /\ { graph.nodes[i] : i \in InFile(graph, p) } = SeqToSet(done.symbols)
            /\ \A sym \in SymbolsOf(p) \ SeqToSet(done.symbols) :
                  /\ get_by_id(graph, sym.id) = <<>>
                  /\ sym \notin SeqToSet(find_by_name(graph, sym.name))
            /\ Len(done.messages) = 1
            /\ done.messages[1].msg.type = "GraphUpdate"
            /\ done.messages[1].msg.is_delta
            /\ done.messages[1].msg.changed_files = <<p>>

\* C5: after a parse failure on p the graph holds no node with file p until
\* a later event for p parses, and the re-indexer goes on with the next event.
C5_ParseFailureLeavesNoSymbols ==
    Settled => \A p \in failed : InFile(graph, p) = {}

-----------------------------------------------------------------------------
(* Broadcast properties *)

IsGraphUpdate(m) == m.msg.type = "GraphUpdate"

\* C7: on every connection the first message written is a non-delta
\* GraphUpdate carrying the counts, node list and exported edges of the
\* graph, and every later GraphUpdate is a delta.
C7_SnapshotFirst ==
    \A c \in Clients :
        /\ cl[c].pc = "sending_snapshot" =>
              cl[c].out[1].msg = GraphUpdate(graph, FALSE, <<>>)
        /\ cl[c].sent # <<>> =>
              /\ IsGraphUpdate(cl[c].sent[1])
              /\ ~cl[c].sent[1].msg.is_delta
              /\ cl[c].sent[1].msg.node_count = Len(cl[c].sent[1].msg.nodes)
              /\ cl[c].sent[1].msg.edge_count = Len(cl[c].sent[1].msg.edges)
        /\ \A i \in 2..Len(cl[c].sent) :
              IsGraphUpdate(cl[c].sent[i]) => cl[c].sent[i].msg.is_delta

\* a connection that got its snapshot of a non-empty graph and then a delta
C7_Witness ==
    \E c \in Clients :
        /\ Len(cl[c].sent) >= 2
        /\ cl[c].sent[1].msg.node_count > 0
        /\ cl[c].sent[2].msg.is_delta

\* C8: every delta a subscriber receives describes a state committed after
\* the state of the GraphUpdate (snapshot or delta) it received before.
C8_DeltasAfterSnapshot ==
    \A c \in Clients :
        \A i \in 2..Len(cl[c].sent) :
            cl[c].sent[i].commit > cl[c].sent[i - 1].commit

\* C9: the re-indexer never waits for the write lock behind a broadcast
\* connection whose snapshot is still being sent.
C9_WriterNotBlockedBySubscriber ==
    ~ ( /\ ix.pc = "wait_write"
        /\ \E c \in Clients : cl[c].pc = "sending_snapshot" /\ c \in lock.readers )

-----------------------------------------------------------------------------
(* Debouncer properties *)

\* C10: a path is promoted only when debounce_ms have passed since the
\* latest raw event recorded for it; a burst of raw events less than
\* debounce_ms apart gives exactly one promoted event, Deleted if the path
\* is gone at that time and Changed otherwise.
C10_DebouncedPromotion ==
    /\ \A pr \in hist.promos :
          /\ should_process_file(pr.path)
          /\ pr.at - pr.recorded >= debounce_ms
    /\ \A p \in DOMAIN pending : pending[p] = hist.raw_last[p]
    /\ Len(rx) = Cardinality(hist.promos)
    /\ \A i \in 1..Len(rx) :
          \E pr \in hist.promos :
              /\ pr.path = rx[i].path
              /\ rx[i].kind = IF pr.existed THEN "Changed" ELSE "Deleted"
    /\ \A pr1, pr2 \in hist.promos :
          (pr1.path = pr2.path /\ pr1.burst = pr2.burst) => pr1 = pr2
    /\ \A p \in Paths :
          ( /\ should_process_file(p)
            /\ hist.raw_last[p] >= 0
            /\ now >= hist.raw_last[p] + debounce_ms + wake_ms + TimeStep )
          => \E pr \in hist.promos : pr.path = p /\ pr.burst = hist.burst[p]

\* a burst of several raw events for one path, the file removed by then,
\* has been promoted as one Deleted event
C10_Witness ==
    \E pr \in hist.promos :
        /\ pr.events >= 2
        /\ ~pr.existed
        /\ \E i \in 1..Len(rx) : rx[i] = WatcherEvent("Deleted", pr.path)

-----------------------------------------------------------------------------
(* Builder properties *)

\* the latest node registered under FQN r in the symbol table, if any
RegisteredFqn(G, r) ==
    LET S == { i \in 1..Len(G.nodes) : r # "" /\ G.nodes[i].qualified_name = r }
    IN  IF S = {} THEN <<>> ELSE <<CHOOSE i \in S : \A j \in S : j <= i>>

\* the latest node registered under bare name r, if any
RegisteredName(G, r) ==
    LET S == { i \in 1..Len(G.nodes) : G.nodes[i].name = r }
    IN  IF S = {} THEN <<>> ELSE <<CHOOSE i \in S : \A j \in S : j <= i>>

\* the edge the resolution rule gives for reference r of node v
ResolvedEdge(G, v, r) ==
    LET fqn == RegisteredFqn(G, r)
        nm  == RegisteredName(G, r)
    IN  IF fqn # <<>> /\ fqn[1] # v THEN {Edge(v, fqn[1], "Calls")}
        ELSE IF nm # <<>> /\ nm[1] # v THEN {Edge(v, nm[1], "Calls")}
        ELSE {}

\* how many entries of v.references resolve to edge e
ResolvedCount(G, e) ==
    IF e.from \notin 1..Len(G.nodes) THEN 0
    ELSE LET refs == G.nodes[e.from].references
         IN  Cardinality({ i \in 1..Len(refs) : e \in ResolvedEdge(G, e.from, refs[i]) })

BuiltEdges ==
    SubSeq(builder.graph.edges, Len(builder.before) + 1, Len(builder.graph.edges))

\* C11: build adds one Calls edge per reference, to the node registered under
\* that FQN if it is not the referencing node, else to the node registered
\* under that bare name if it is not the referencing node, and nothing else.
C11_BuildResolvesReferences ==
    builder.built =>
        LET G == builder.graph
        IN  /\ \A e \in SeqToSet(BuiltEdges) :
                  /\ e.kind = "Calls"
                  /\ e.from # e.to
                  /\ Occurrences(BuiltEdges, e) = ResolvedCount(G, e)
            /\ \A v \in 1..Len(G.nodes) :
                  \A i \in 1..Len(G.nodes[v].references) :
                      \A e \in ResolvedEdge(G, v, G.nodes[v].references[i]) :
                          Occurrences(BuiltEdges, e) = ResolvedCount(G, e)

-----------------------------------------------------------------------------
(* Graph core properties, continued *)

\* C12: add_node with an id that is already present fails and changes
\* nothing, so no two live nodes share an id and node_count is the number
\* of distinct ids.
C12_AddNodeRejectsDuplicateId ==
    /\ Cardinality(LiveIds(graph)) = node_count(graph)
    /\ last.op = "add_node" =>
          \/ graph = last.pre
          \/ /\ Len(graph.nodes) = Len(last.pre.nodes) + 1
             /\ graph.nodes[Len(graph.nodes)].id \notin LiveIds(last.pre)

\* C13: remove_file(f) keeps every node of another file under its handle
\* and retrievable through the three indexes, and keeps every edge between
\* two such nodes with its kind.
C13_RemoveFileFrame ==
    last.op = "remove_file" =>
        LET pre  == last.pre
            Kept == { i \in 1..Len(pre.nodes) : pre.nodes[i].file # last.file }
        IN  /\ \A i \in Kept :
                  /\ node_weight(graph, i) = <<pre.nodes[i]>>
                  /\ get_by_id(graph, pre.nodes[i].id) = <<pre.nodes[i]>>
                  /\ pre.nodes[i] \in SeqToSet(find_by_name(graph, pre.nodes[i].name))
                  /\ pre.nodes[i] \in SeqToSet(find_by_file(graph, pre.nodes[i].file))
            /\ \A e \in SeqToSet(pre.edges) :
                  (e.from \in Kept /\ e.to \in Kept) =>
                      Occurrences(graph.edges, e) = Occurrences(pre.edges, e)

\* C14: export_edges does not fail, and get_by_id on the source id and on
\* the target id of every exported edge returns a live node with that id.
C14_ExportedEdgesResolve ==
    /\ \A i \in 1..Len(graph.edges) :
          /\ node_weight(graph, graph.edges[i].from) # <<>>
          /\ node_weight(graph, graph.edges[i].to) # <<>>
    /\ \A i \in 1..Len(graph.edges) :
          LET ge == export_edges(graph)[i]
          IN  \A id \in {ge.source, ge.target} :
                  /\ get_by_id(graph, id) # <<>>
                  /\ get_by_id(graph, id)[1].id = id

-----------------------------------------------------------------------------
(* Blast-radius properties, continued *)

Analyzed == impact.op = "analyze_impact"

NoRepeats(ids) == \A i, j \in 1..Len(ids) : ids[i] = ids[j] => i = j

NodeIds(list) == [ i \in 1..Len(list) |-> list[i].node_id ]

\* the edges of the cycle a -> b -> c -> a
CycleEdges == { Edge(1, 2, "Calls"), Edge(2, 3, "Calls"), Edge(3, 1, "Calls") }

OnCycle ==
    /\ Analyzed
    /\ Len(graph.edges) = 3
    /\ SeqToSet(graph.edges) = CycleEdges
    /\ impact.arg_target = 1
    /\ impact.arg_depth = 10

\* C15: analyze_impact and get_dependents return on every graph, also with
\* cycles, self-loops and parallel edges; a node is recorded at most once
\* per direction and the start node never; on the cycle a -> b -> c -> a,
\* analyze_impact(a, 10) gives 2 downstream and 2 upstream nodes.
C15_TraversalsTerminate ==
    /\ Analyzed =>
          /\ \A list \in {impact.result.upstream, impact.result.downstream} :
                /\ NoRepeats(NodeIds(list))
                /\ impact.arg_target \notin SeqToSet(NodeIds(list))
          /\ OnCycle => /\ Len(impact.result.downstream) = 2
                        /\ Len(impact.result.upstream) = 2
    /\ impact.op = "get_dependents" =>
          LET ids == [ i \in 1..Len(impact.result) |-> impact.result[i][1] ]
          IN  /\ NoRepeats(ids)
              /\ impact.arg_target \notin SeqToSet(ids)

\* analyze_impact(a, 10) has returned on the cycle
C15_Witness ==
    /\ OnCycle
    /\ SeqToSet(NodeIds(impact.result.downstream)) = {2, 3}
    /\ SeqToSet(NodeIds(impact.result.upstream)) = {2, 3}

\* the severity of a hop distance: Direct 0-1, Transitive 2-3, Distant 4+
SeverityOfHops(hops) ==
    IF hops <= 1 THEN "Direct" ELSE IF hops <= 3 THEN "Transitive" ELSE "Distant"

\* C16: every affected node has hop_distance >= 1, hop_distance <= max_depth
\* when max_depth > 0, and the severity of its hop distance (Direct 0-1,
\* Transitive 2-3, Distant 4+); total_affected is the sum of both lengths.
C16_SeverityFollowsHops ==
    /\ Analyzed =>
          /\ \A list \in {impact.result.upstream, impact.result.downstream} :
                \A i \in 1..Len(list) :
                    /\ list[i].hop_distance >= 1
                    /\ impact.arg_depth > 0 => list[i].hop_distance <= impact.arg_depth
                    /\ list[i].severity = SeverityOfHops(list[i].hop_distance)
          /\ impact.result.total_affected =
                Len(impact.result.upstream) + Len(impact.result.downstream)
    /\ impact.op = "from_hops" => impact.result = SeverityOfHops(impact.arg_hops)

\* a node three hops away has been returned as Transitive
C16_Witness ==
    /\ Analyzed
    /\ \E i \in 1..Len(impact.result.downstream) :
          /\ impact.result.downstream[i].hop_distance = 3
          /\ impact.result.downstream[i].severity = "Transitive"

\* kinds of the edges that join n to a node one hop nearer to the target
EntryKinds(G, t, list, n, direction) ==
    LET Nearer == IF n.hop_distance = 1 THEN {t}
                  ELSE { list[i].node_id :
                           i \in { j \in 1..Len(list) :
                                     list[j].hop_distance = n.hop_distance - 1 } }
    IN  { G.edges[i].kind :
            i \in { j \in 1..Len(G.edges) :
                      IF direction = "Incoming"
                      THEN G.edges[j].to \in Nearer /\ G.edges[j].from = n.node_id
                      ELSE G.edges[j].from \in Nearer /\ G.edges[j].to = n.node_id } }

\* C17: entry_edge of an affected node is the kind of the edge over which
\* the traversal first reached that node, i.e. of an edge between the node
\* and its predecessor one hop nearer to the target.
C17_EntryEdgeIsOwnEdge ==
    Analyzed =>
        /\ \A i \in 1..Len(impact.result.downstream) :
              impact.result.downstream[i].entry_edge
                  \in EntryKinds(graph, impact.arg_target, impact.result.downstream,
                                 impact.result.downstream[i], "Outgoing")
        /\ \A i \in 1..Len(impact.result.upstream) :
              impact.result.upstream[i].entry_edge
                  \in EntryKinds(graph, impact.arg_target, impact.result.upstream,
                                 impact.result.upstream[i], "Incoming")

\* (severity, hop_distance, id) of x comes strictly before that of y
KeyBefore(x, y) ==
    LET kx == <<SeverityRank(x.severity), x.hop_distance, IdRank(x.id)>>
        ky == <<SeverityRank(y.severity), y.hop_distance, IdRank(y.id)>>
    IN  \E k \in 1..3 : kx[k] < ky[k] /\ \A m \in 1..(k - 1) : kx[m] = ky[m]

\* C18: upstream, downstream and all_affected are in ascending order of
\* (severity, hop_distance, id), whatever the order of insertion of the edges.
C18_ResultsSorted ==
    Analyzed =>
        /\ \A list \in {impact.result.upstream, impact.result.downstream} :
              \A i, j \in 1..Len(list) : i < j => KeyBefore(list[i], list[j])
        /\ LET all == all_affected(impact.result)
           IN  /\ Len(all) = impact.result.total_affected
               /\ \A i, j \in 1..Len(all) : i < j => ~KeyBefore(all[j], all[i])

\* a -> b was inserted before a -> c, so the traversal meets c before b;
\* the list is b, c, d
C18_Witness ==
    /\ Analyzed
    /\ Len(graph.edges) = 3
    /\ graph.edges[1] = Edge(1, 2, "Calls")
    /\ graph.edges[2] = Edge(1, 3, "Calls")
    /\ [ i \in 1..Len(impact.result.downstream) |-> impact.result.downstream[i].id ]
          = <<"b", "c", "d">>

\* C19: get_dependents(h, d) returns exactly the nodes other than h whose
\* shortest path to h over incoming edges has 1..d edges, each once, with
\* that shortest length.
C19_DependentsIsBfs ==
    impact.op = "get_dependents" =>
        LET t == impact.arg_target
            r == impact.result
        IN  /\ { r[i][1] : i \in 1..Len(r) }
                  = Within(graph, t, "Incoming", impact.arg_depth) \ {t}
            /\ NoRepeats([ i \in 1..Len(r) |-> r[i][1] ])
            /\ \A i \in 1..Len(r) :
                  r[i][2] = ShortestLength(graph, t, r[i][1], "Incoming")

\* C20: the dependents of the impact RPC are the upstream list of
\* analyze_impact for the same node and depth (0 = unbounded), node by node
\* with the same depth, and totalAffected is the length of that list.
C20_ImpactRpcIsUpstream ==
    (impact.op = "impact" /\ impact.arg_node \in LiveIds(graph)) =>
        LET target   == get_index(graph, impact.arg_node)[1]
            upstream == analyze_impact(graph, target, impact.arg_depth).upstream
            deps     == impact.result.dependents
        IN  /\ impact.result.error = 0
            /\ { <<deps[i].node, deps[i].depth>> : i \in 1..Len(deps) }
                  = { <<upstream[i].id, upstream[i].hop_distance>> :
                        i \in 1..Len(upstream) }
            /\ Len(deps) = Len(upstream)
            /\ impact.result.totalAffected = Len(upstream)

-----------------------------------------------------------------------------
(* Builder properties, continued *)

\* the builder after add_nodes of the given nodes in the given order
RECURSIVE BuilderOf(_)
BuilderOf(nodes) ==
    IF nodes = <<>> THEN GraphBuilder_new
    ELSE builder_add_node(BuilderOf(SubSeq(nodes, 1, Len(nodes) - 1)),
                          nodes[Len(nodes)])

\* the edges of a graph as pairs of node ids
EdgeIdPairs(G) ==
    { <<G.nodes[G.edges[k].from].id, G.nodes[G.edges[k].to].id, G.edges[k].kind>> :
        k \in 1..Len(G.edges) }

Orders(n) ==
    { f \in [1..n -> 1..n] : \A i, j \in 1..n : f[i] = f[j] => i = j }

\* no two nodes share a name and no two nodes share an FQN
UniqueNames(nodes) ==
    \A i, j \in 1..Len(nodes) :
        i # j => /\ nodes[i].name # nodes[j].name
                 /\ (nodes[i].qualified_name # "" =>
                        nodes[i].qualified_name # nodes[j].qualified_name)

\* C24: with unique names and unique FQNs, the edges build produces are the
\* same for every order in which the nodes were passed to add_nodes.
C24_BuildIsOrderIndependent ==
    (builder.built /\ UniqueNames(builder.graph.nodes)) =>
        LET nodes == builder.graph.nodes
        IN  \A f \in Orders(Len(nodes)) :
                EdgeIdPairs(resolve_edges(BuilderOf([ i \in 1..Len(nodes) |-> nodes[f[i]] ])).graph)
                    = EdgeIdPairs(builder.graph)

\* the last segment of a dotted reference
LastSegment(reference) == IF reference = "p.x" THEN "x" ELSE reference

\* C25: a dotted reference that matches no FQN is looked up by its last
\* segment, and build adds a Calls edge to the node of that bare name if it
\* exists and is not the referencing node.
C25_DottedReferenceTrimmed ==
    builder.built =>
        LET G == builder.graph
        IN  \A v \in 1..Len(G.nodes) :
                \A i \in 1..Len(G.nodes[v].references) :
                    LET r  == G.nodes[v].references[i]
                        nm == RegisteredName(G, LastSegment(r))
                    IN  (/\ LastSegment(r) # r
                         /\ RegisteredFqn(G, r) = <<>>
                         /\ nm # <<>>
                         /\ nm[1] # v)
                        => Edge(v, nm[1], "Calls") \in SeqToSet(BuiltEdges)

-----------------------------------------------------------------------------
(* Caller and callee lists *)

\* nodes with at least one Calls edge to v
Callers(G, v) ==
    { G.nodes[u] : u \in { x \in 1..Len(G.nodes) :
        \E k \in 1..Len(G.edges) :
            G.edges[k].from = x /\ G.edges[k].to = v /\ G.edges[k].kind = "Calls" } }

\* nodes with at least one Calls edge from v
Callees(G, v) ==
    { G.nodes[w] : w \in { x \in 1..Len(G.nodes) :
        \E k \in 1..Len(G.edges) :
            G.edges[k].from = v /\ G.edges[k].to = x /\ G.edges[k].kind = "Calls" } }

\* C21: get_callers(v) lists exactly the nodes with at least one Calls edge
\* to v and get_callees(v) exactly the nodes with at least one Calls edge
\* from v, each node once, whatever other or parallel edges exist.
C21_CallersAndCalleesExact ==
    /\ impact.op = "get_callers" =>
          /\ SeqToSet(impact.result) = Callers(graph, impact.arg_target)
          /\ NoRepeats(impact.result)
    /\ impact.op = "get_callees" =>
          /\ SeqToSet(impact.result) = Callees(graph, impact.arg_target)
          /\ NoRepeats(impact.result)

-----------------------------------------------------------------------------
(* Broadcast properties, continued *)

\* C26: a delta is broadcast only when the writes of its re-index are done;
\* its counts, nodes and edges are those of the graph that re-index leaves
\* behind, and a subscriber that has received it and can read the shared
\* graph finds that graph.
C26_DeltaDescribesCommittedWrite ==
    /\ \A i \in 1..Len(log) :
          /\ log[i].msg.is_delta
          /\ log[i].msg.node_count = Len(log[i].msg.nodes)
          /\ log[i].msg.edge_count = Len(log[i].msg.edges)
    /\ ix.pc = "release" =>
          /\ lock.writer
          /\ Len(log) = ix.log_start + 1
          /\ log[Len(log)].msg = GraphUpdate(graph, TRUE, <<ix.result.file_path>>)
    /\ done.outcome \in {"indexed", "deleted"} =>
          /\ Len(done.messages) = 1
          /\ done.messages[1].msg.changed_files \in {<<f>> : f \in world.files}
          /\ done.messages[1].msg
                = GraphUpdate(committed, TRUE, done.messages[1].msg.changed_files)
    /\ \A c \in Clients :
          \A i \in 1..Len(cl[c].sent) :
              (/\ cl[c].sent[i].msg.is_delta
               /\ cl[c].sent[i].commit = Commits(log)
               /\ ~lock.writer
               /\ ix.pc # "panicked")
              => cl[c].sent[i].msg
                    = GraphUpdate(graph, TRUE, cl[c].sent[i].msg.changed_files)

\* a subscriber holds the latest delta, of a non-empty graph, and may read
C26_Witness ==
    \E c \in Clients :
        \E i \in 1..Len(cl[c].sent) :
            /\ cl[c].sent[i].msg.is_delta
            /\ cl[c].sent[i].msg.node_count > 0
            /\ cl[c].sent[i].commit = Commits(log)
            /\ ~lock.writer

RECURSIVE SkippedBefore(_, _)
\* messages reported skipped by the Lagged signals seen while `count`
\* messages had been forwarded
SkippedBefore(lagged, count) ==
    IF lagged = <<>> THEN 0
    ELSE (IF Head(lagged).after <= count THEN Head(lagged).n ELSE 0)
         + SkippedBefore(Tail(lagged), count)

\* C27: a send is never blocked; a receiver gets a message only while that
\* message is among the newest BroadcastCapacity, and otherwise gets Lagged
\* with the number of messages it skipped; every broadcast message since the
\* subscription is either forwarded, in order, or counted by a Lagged
\* signal seen before the next forwarded message; Lagged does not end the
\* subscription.
C27_LaggedNotSilent ==
    /\ ix.pc = "broadcast" => ENABLED IndexerBroadcast
    /\ \A c \in Clients :
          /\ cl[c].recv.kind = "Ok" => ~cl[c].recv.overwritten
          /\ cl[c].recv.kind = "Lagged" =>
                /\ cl[c].recv.overwritten
                /\ cl[c].lagged[Len(cl[c].lagged)].n > 0
                /\ cl[c].pc \in {"loop", "closed"}
          /\ \A i \in 2..Len(cl[c].sent) :
                cl[c].sent[i].commit
                    = cl[c].start + (i - 2) + SkippedBefore(cl[c].lagged, i - 1)
          /\ cl[c].pc = "loop" =>
                /\ cl[c].cursor = cl[c].start + (Len(cl[c].sent) - 1)
                                    + SkippedBefore(cl[c].lagged, Len(cl[c].sent))
                /\ (cl[c].recv.kind = "Lagged" /\ cl[c].cursor <= Len(log)) =>
                      ENABLED ClientForward(c)

\* a subscriber that saw Lagged and was forwarded a message afterwards
C27_Witness ==
    \E c \in Clients :
        /\ cl[c].lagged # <<>>
        /\ cl[c].lagged[1].n > 0
        /\ Len(cl[c].sent) > cl[c].lagged[1].after
        /\ cl[c].recv.kind = "Ok"

-----------------------------------------------------------------------------
(* Search properties *)

\* handles with a pair in the index whose lowercased name contains the
\* lowercased query
Matching(pairs, query) ==
    { p[2] : p \in { x \in pairs :
                       contains(to_lowercase(Chars(x[1])), to_lowercase(Chars(query))) } }

\* C22: for a query of at least 2 characters, search returns exactly the
\* handles that have a pair in the index whose lowercased name contains the
\* lowercased query, in ascending order without repeats; removed pairs do
\* not count and the other pairs are unaffected.
C22_SearchIsSubstringMatch ==
    (search.op = "search" /\ Len(Chars(search.query)) >= 2) =>
        /\ SeqToSet(search.result) = Matching(search.pairs, search.query)
        /\ \A i, j \in 1..Len(search.result) :
              i < j => search.result[i] < search.result[j]

\* the n-gram index holding the name of every node of the graph
RECURSIVE IndexOfNodes(_, _)
IndexOfNodes(G, n) ==
    IF n = 0 THEN SearchIndex_new
    ELSE search_index_insert(IndexOfNodes(G, n - 1), G.nodes[n].name, n)

IndexedSearch(G, query) ==
    LET found == search_index_search(IndexOfNodes(G, Len(G.nodes)), query)
    IN  { G.nodes[found[i]] : i \in 1..Len(found) }

\* C23: ArborGraph::search returns the same set of nodes as the n-gram index
\* search over the names of the nodes in the graph (so a query of fewer than
\* 2 characters matches by name prefix only), after any sequence of add_node
\* and remove_file.
C23_GraphSearchIsIndexSearch ==
    last.op = "search" =>
        SeqToSet(last.result) = IndexedSearch(graph, last.query)

-----------------------------------------------------------------------------
(* Query RPC properties *)

IsRequest(frame) == frame.kind = "text"

MethodsWithParams == {"discover", "impact", "context", "search", "node.get"}

KnownMethods == MethodsWithParams \cup {"graph.info"}

\* the error code the claim gives a text frame, 0 where it gives none
ExpectedError(G, frame) ==
    IF ~frame.parses THEN -32700
    ELSE IF frame.method \notin KnownMethods THEN -32601
    ELSE IF frame.method \in MethodsWithParams /\ ~frame.params.valid THEN -32602
    ELSE IF frame.method = "impact" /\ frame.params.node \notin LiveIds(G) THEN -32001
    ELSE IF frame.method = "node.get" /\ frame.params.id \notin LiveIds(G) THEN -32001
    ELSE 0

\* C28: a frame that is no request gets -32700, an unknown method -32601,
\* bad params of a known method -32602, a node id that is not in the graph
\* (impact, node.get) -32001; each gets exactly one response, with the
\* request's id when the frame was a request, and the connection stays open.
C28_RpcErrorReplies ==
    (IsRequest(conn.frame) /\ ExpectedError(conn.read.graph, conn.frame) # 0) =>
        /\ conn.pc = "open"
        /\ Len(conn.replies) = 1
        /\ conn.replies[1].error = ExpectedError(conn.read.graph, conn.frame)
        /\ conn.frame.parses => conn.replies[1].id = conn.frame.id

\* a second frame was answered with an error after the graph lost a file
C28_Witness ==
    /\ conn.served = 2
    /\ IsRequest(conn.frame)
    /\ conn.frame.parses
    /\ conn.frame.id = "7"
    /\ conn.replies # <<>>
    /\ conn.replies[1].error = -32001
    /\ Len(conn.read.graph.nodes) > 0

\* the true handle of a node
HandleOf(G, id) == CHOOSE h \in 1..Len(G.nodes) : G.nodes[h].id = id

NameMatches(node, query) ==
    contains(to_lowercase(Chars(node.name)), to_lowercase(Chars(query)))

\* C30: discover returns at most limit nodes, each matching the query by
\* case-insensitive substring of its name, in order of non-increasing
\* centrality, and no matching node left out has a greater centrality than
\* a returned one.
C30_DiscoverTopByCentrality ==
    (/\ IsRequest(conn.frame)
     /\ conn.frame.parses
     /\ conn.frame.method = "discover"
     /\ conn.frame.params.valid) =>
        LET nodes == conn.replies[1].result.nodes
            ids   == { nodes[i].id : i \in 1..Len(nodes) }
            G     == conn.read.graph
            Score(id) == centrality_of(conn.read.centrality, HandleOf(G, id))
        IN  /\ Len(nodes) <= conn.frame.params.limit
            /\ \A i \in 1..Len(nodes) :
                  /\ nodes[i].id \in LiveIds(G)
                  /\ NameMatches(nodes[i], conn.frame.params.query)
            /\ \A i, j \in 1..Len(nodes) :
                  i < j => Score(nodes[i].id) >= Score(nodes[j].id)
            /\ \A h \in 1..Len(G.nodes) :
                  (/\ NameMatches(G.nodes[h], conn.frame.params.query)
                   /\ G.nodes[h].id \notin ids)
                  => \A i \in 1..Len(nodes) :
                        centrality_of(conn.read.centrality, h) <= Score(nodes[i].id)

-----------------------------------------------------------------------------
(* Agent bridge properties *)

\* the error code the claim gives an input line, 0 where it gives none
ExpectedBridgeError(line) ==
    IF ~line.parses THEN -32700
    ELSE IF line.method \notin {"initialize", "notifications/initialized",
                                "tools/list", "tools/call"} THEN -32601
    ELSE IF line.method = "tools/call" /\ ~line.params.has_name THEN -32602
    ELSE IF line.method = "tools/call"
            /\ line.params.name \notin {"get_logic_path", "analyze_impact"} THEN -32601
    ELSE 0

\* C29: every non-empty line gets exactly one response line, with the
\* request's id; a line that is no request gets -32700, an unknown method or
\* tool -32601, a tools/call without a name -32602, and the bridge goes on
\* reading after these errors.
C29_BridgeRepliesToEveryLine ==
    (conn.frame.kind = "text" /\ conn.pc # "panicked") =>
        /\ Len(conn.replies) = 1
        /\ conn.frame.parses => conn.replies[1].id = conn.frame.id
        /\ ExpectedBridgeError(conn.frame) # 0 =>
              /\ conn.replies[1].error = ExpectedBridgeError(conn.frame)
              /\ conn.pc = "open"

-----------------------------------------------------------------------------
(* Context RPC properties *)

RECURSIVE SumTokens(_)
SumTokens(nodes) ==
    IF nodes = <<>> THEN 0 ELSE estimated_tokens(Head(nodes)) + SumTokens(Tail(nodes))

\* C31: the context RPC returns a prefix of the matching nodes in
\* non-increasing centrality order: the returned nodes match the task and
\* are ordered by non-increasing centrality, no matching node left out has a
\* greater centrality than a returned one, a node is left out only because
\* the most central node left out would push the total above maxTokens,
\* totalTokens is the sum of the returned nodes' estimates
\* (line_end - line_start) * 40 / 4, and totalTokens <= maxTokens.
C31_ContextIsGreedyPrefix ==
    (/\ IsRequest(conn.frame)
     /\ conn.frame.parses
     /\ conn.frame.method = "context"
     /\ conn.frame.params.valid) =>
        LET result == conn.replies[1].result
            nodes  == result.nodes
            ids    == { nodes[i].id : i \in 1..Len(nodes) }
            G      == conn.read.graph
            Score(id) == centrality_of(conn.read.centrality, HandleOf(G, id))
            left   == { h \in 1..Len(G.nodes) :
                          /\ NameMatches(G.nodes[h], conn.frame.params.task)
                          /\ G.nodes[h].id \notin ids }
        IN  /\ \A i \in 1..Len(nodes) :
                  /\ nodes[i].id \in LiveIds(G)
                  /\ NameMatches(nodes[i], conn.frame.params.task)
            /\ \A i, j \in 1..Len(nodes) :
                  i < j => Score(nodes[i].id) >= Score(nodes[j].id)
            /\ \A h \in left : \A i \in 1..Len(nodes) :
                  centrality_of(conn.read.centrality, h) <= Score(nodes[i].id)
            /\ left # {} =>
                  \E h \in left :
                     /\ \A k \in left : centrality_of(conn.read.centrality, k)
                                           <= centrality_of(conn.read.centrality, h)
                     /\ result.totalTokens + estimated_tokens(G.nodes[h])
                           > conn.frame.params.maxTokens
            /\ result.totalTokens = SumTokens(nodes)
            /\ result.totalTokens <= conn.frame.params.maxTokens

-----------------------------------------------------------------------------
(* Spotlight properties *)

\* the nodes a target resolves to: the node of that id, else those of that name
TargetsOf(G, target) ==
    IF target \in LiveIds(G)
    THEN { n \in SeqToSet(G.nodes) : n.id = target }
    ELSE { n \in SeqToSet(G.nodes) : n.name = target }

\* C32: a tools/call of get_logic_path or analyze_impact whose target
\* resolves to a node emits exactly one FocusNode with that node's id, file
\* and start line before its response is written, and the FocusNode names the
\* node the returned brief describes, also when a re-index commits during
\* the call.
C32_SpotlightNamesBriefedNode ==
    (/\ conn.pc = "open"
     /\ conn.served > 0
     /\ conn.frame.kind = "text"
     /\ conn.frame.method = "tools/call") =>
        LET target  == conn.frame.params.node
            focus   == conn.read.focus
            content == conn.replies[1].content
        IN  /\ TargetsOf(conn.read.graph, target) # {} =>
                  /\ Len(focus) = 1
                  /\ \E n \in TargetsOf(conn.read.graph, target) :
                        focus[1] = FocusNode(n)
            /\ content.found =>
                  /\ Len(focus) = 1
                  /\ \E n \in TargetsOf(conn.read.brief, target) :
                        /\ focus[1] = FocusNode(n)
                        /\ content.name = n.name
                        /\ content.file = n.file
            /\ Len(focus) = 1 => content.found

-----------------------------------------------------------------------------
(* GraphStore properties *)

\* how often an edge occurs in the exported edge list
EdgeCopies(G, edge) ==
    Cardinality({ i \in 1..Len(G.edges) : GraphEdge(G, G.edges[i]) = edge })

-----------------------------------------------------------------------------
(* Writers of the shared graph *)

\* a step of the re-indexer inside its write section
ReindexerWrites ==
    /\ lock.writer
    /\ ix.pc \in {"remove", "add_nodes", "add_edges"}
    /\ ix' # ix
    /\ conn' = conn
    /\ cl' = cl

\* the one initial index load of the bridge
InitialLoad ==
    /\ last = NoOp
    /\ last'.op = "initial_index"
    /\ conn' = conn
    /\ cl' = cl

\* C34: the graph's nodes, edges, indexes and centrality scores change only
\* in a step of the re-indexer's write section or in the initial index load:
\* no Query RPC method, no agent-bridge tool call and no broadcast snapshot
\* changes them.
C34_OnlyReindexerWrites ==
    [][ (graph' # graph \/ centrality' # centrality) => (ReindexerWrites \/ InitialLoad) ]_vars

\* two requests were answered and a snapshot was sent from a scored graph
\* that the re-indexer has written since the initial load
C34_Witness ==
    /\ conn.served = 2
    /\ conn.replies # <<>>
    /\ cl[Subscriber].sent # <<>>
    /\ centrality # EmptyMap
    /\ last # NoOp
    /\ done.outcome = "indexed"
    /\ graph # last.pre

-----------------------------------------------------------------------------
(* Shutdown properties *)

\* the re-indexer has finished an event for the path since the raw channel
\* closed: a delta for it was broadcast, or its parse failed
ReindexedSinceClose(path) ==
    \/ path \in failed
    \/ \E i \in (world.closed_at + 1)..Len(log) : log[i].msg.changed_files = <<path>>

\* C35: when the raw event channel closes, the debouncer stops first and the
\* re-indexer stops only after its queue was closed and emptied, and every
\* path that was pending in the debounce map or queued for the re-indexer at
\* that moment has been re-indexed when the re-indexer terminates.
C35_ShutdownDrainsPipeline ==
    ix.pc = "stopped" =>
        /\ world.watcher = "stopped"
        /\ rx = <<>>
        /\ \A path \in world.owed : ReindexedSinceClose(path)

-----------------------------------------------------------------------------
(* Eventual consistency of a subscriber *)

\* re-index commits have stopped and the subscriber has received all there is
CaughtUp(c) ==
    /\ world.events = 0
    /\ rx = <<>>
    /\ ix.pc = "recv"
    /\ cl[c].pc = "loop"
    /\ cl[c].cursor > Len(log)

LastGraphUpdate(messages) ==
    LET updates == { i \in 1..Len(messages) : messages[i].msg.type = "GraphUpdate" }
    IN  messages[CHOOSE i \in updates : \A j \in updates : j <= i].msg

\* C36: once re-index commits have stopped and a connected subscriber has
\* received what the channel had for it, the last GraphUpdate it received
\* carries the node_count, edge_count, nodes and edges of the final graph,
\* also when it lagged and skipped messages and when FocusNode messages were
\* broadcast in between.
C36_SubscriberEndsAtFinalGraph ==
    CaughtUp(Subscriber) =>
        LET update == LastGraphUpdate(cl[Subscriber].sent)
        IN  /\ update.node_count = node_count(graph)
            /\ update.edge_count = edge_count(graph)
            /\ update.nodes = graph.nodes
            /\ update.edges = export_edges(graph)

-----------------------------------------------------------------------------
(* Pipeline properties *)

\* the path has nothing left in the debouncer, the queue or the re-indexer
Reindexed(path) ==
    /\ path \notin DOMAIN pending
    /\ \A i \in 1..Len(rx) : rx[i].path # path
    /\ ix.pc = "recv"
    /\ \E pr \in hist.promos : pr.path = path /\ pr.burst = hist.burst[path]

-----------------------------------------------------------------------------
(* Builder properties: resolve_edges before build *)

\* what build() alone returns for the nodes the builder holds
BuildAlone(b) == resolve_edges([b EXCEPT !.graph.edges = <<>>]).graph

\* C39: whether or not resolve_edges was called before it, build() returns
\* the edge multiset that build() alone returns for the same nodes.
C39_ResolveEdgesIdempotent ==
    builder.built =>
        \A edge \in { GraphEdge(builder.graph, builder.graph.edges[i]) :
                        i \in 1..Len(builder.graph.edges) } :
            EdgeCopies(builder.graph, edge) = EdgeCopies(BuildAlone(builder), edge)

-----------------------------------------------------------------------------
(* Re-indexing files whose content has not changed since the initial
   full build *)

\* the nodes the parser gives for the watched files: foo in f.rs calls run
\* in g.rs
SourceNode(path) ==
    CASE path = "f.rs" ->
           [ id |-> "f.rs:foo", name |-> "foo", qualified_name |-> "",
             file |-> "f.rs", references |-> <<"run">> ]
      [] path = "g.rs" ->
           [ id |-> "g.rs:run", name |-> "run", qualified_name |-> "",
             file |-> "g.rs", references |-> <<>> ]

\* what parse_file gives for the same content
SourceParse(path) ==
    CASE path = "f.rs" ->
           ParseResult("f.rs", <<CodeNode("f.rs:foo", "foo", "f.rs")>>,
                               <<Relation("f.rs:foo", "run", "Calls")>>)
      [] path = "g.rs" ->
           ParseResult("g.rs", <<CodeNode("g.rs:run", "run", "g.rs")>>, <<>>)
      [] path = "h.rs" ->
           ParseResult("h.rs", <<CodeNode("h.rs:baz", "baz", "h.rs")>>, <<>>)

\* the initial full build: add_nodes per file in walk order, then build()
InitialBuild(paths) ==
    resolve_edges(BuilderOf([ i \in 1..Len(paths) |-> SourceNode(paths[i]) ])).graph

WalkOrders == { <<"f.rs", "g.rs">>, <<"g.rs", "f.rs">> }

InitRefresh ==
    /\ graph \in { InitialBuild(paths) : paths \in WalkOrders }
    /\ last = NoOp
    /\ impact = NoImpact
    /\ ServerIdle([files |-> {"f.rs", "g.rs"}, events |-> MaxRefreshEvents,
                   clients |-> {}, queries |-> {}, built |-> graph])

NextRefresh ==
    \/ \E path \in world.files : Promote("Changed", path)
    \/ rx # <<>> /\ IndexerParseOk(SourceParse(Head(rx).path))
    \/ IndexerAcquireWrite
    \/ IndexerRemoveFile
    \/ IndexerAddNodes
    \/ IndexerAddEdges
    \/ IndexerBroadcast
    \/ IndexerRelease

SpecRefresh == InitRefresh /\ [][NextRefresh]_vars

\* how often (source id, target id, kind) occurs among the edges
EdgeIdCopies(G, edge) ==
    Cardinality({ k \in 1..Len(G.edges) :
        <<G.nodes[G.edges[k].from].id, G.nodes[G.edges[k].to].id, G.edges[k].kind>> = edge })

\* C38: after a re-index of a file whose content is what the initial build
\* saw, the graph has the node ids and the multiset of (source id, target
\* id, kind) edges of the graph before the event.
C38_UnchangedReindexKeepsGraph ==
    (ix.pc = "recv" /\ done.outcome = "indexed") =>
        /\ LiveIds(graph) = LiveIds(world.built)
        /\ \A edge \in EdgeIdPairs(graph) \cup EdgeIdPairs(world.built) :
              EdgeIdCopies(graph, edge) = EdgeIdCopies(world.built, edge)

-----------------------------------------------------------------------------
(* Ranking once after the initial build, then incremental re-indexing *)

\* compute_centrality and set_centrality right after the initial build
Rank(scores) ==
    /\ world.events = MaxRankingEvents
    /\ rx = <<>>
    /\ ix.pc = "recv"
    /\ SetCentrality(scores)

InitRanking ==
    /\ graph \in { InitialBuild(paths) : paths \in WalkOrders }
    /\ last = NoOp
    /\ impact = NoImpact
    /\ ServerIdle([files |-> {"f.rs", "g.rs", "h.rs"}, events |-> MaxRankingEvents,
                   clients |-> {}, queries |-> {}, built |-> graph])

NextRanking ==
    \/ \E scores \in [1..Len(graph.nodes) -> 0..MaxScore] : Rank(scores)
    \/ /\ centrality # EmptyMap
       /\ \E kind \in {"Changed", "Deleted"}, path \in world.files : Promote(kind, path)
    \/ rx # <<>> /\ IndexerParseOk(SourceParse(Head(rx).path))
    \/ IndexerDeleted
    \/ IndexerAcquireWrite
    \/ IndexerRemoveFile
    \/ IndexerAddNodes
    \/ IndexerAddEdges
    \/ IndexerBroadcast
    \/ IndexerRelease

SpecRanking == InitRanking /\ [][NextRanking]_vars

\* the score set_centrality stored for the node with this id, if any
ScoredAs(id) ==
    IF id \in LiveIds(world.built)
    THEN <<centrality[CHOOSE h \in 1..Len(world.built.nodes) :
                        world.built.nodes[h].id = id]>>
    ELSE <<>>

\* C40: once ranked, every node of the committed graph reports 0 or the
\* score the latest set_centrality computed for the node of that id; a node
\* that was not ranked reports 0.
C40_CentralityIsOwnScore ==
    (centrality # EmptyMap /\ ix.pc = "recv") =>
        \A h \in 1..Len(graph.nodes) :
            \/ centrality_of(centrality, h) = 0
            \/ ScoredAs(graph.nodes[h].id) = <<centrality_of(centrality, h)>>

====
